---------------------------- MODULE Spec2Model ----------------------------
(***************************************************************************)
(* A model of the pseudo-random stream engine of imagine (core/prng.ts,    *)
(* core/seed.ts) and of the generators built on it.                        *)
(*                                                                         *)
(* Numbers.  An unsigned 32-bit word is the pair <<hi, lo>> of its 16-bit  *)
(* halves, so that every intermediate value of the 32-bit arithmetic stays *)
(* below 2^31.  The value a stream's next() returns is k / 2^32; the model *)
(* keeps the numerator k.  A finite bound of int/float is a multiple of    *)
(* 1/Den of small magnitude and the model computes with these exactly, as  *)
(* the double arithmetic of the code does for small binary fractions; NaN  *)
(* and the infinities are separate values.                                 *)
(***************************************************************************)
EXTENDS Integers, Sequences, FiniteSets, TLC

VARIABLES heap, globalRng, now, curSeed, script, outs, pre, stack, recv, seq

vars == <<heap, globalRng, now, curSeed, script, outs, pre, stack, recv, seq>>

\* the frames of the call in progress, the values each logical task has
\* received so far, and the number.sequence objects the caller holds
ctl == <<stack, recv, seq>>

-----------------------------------------------------------------------------
(* 32-bit words *)

B16 == 65536

B8 == 256

W(hi, lo) == <<hi, lo>>

\* the one element of a singleton: Pick({e(x) : x \in {d}}) is e(d) with d
\* evaluated once
Pick(S) == CHOOSE v \in S : TRUE

Hi(w) == w[1]

Lo(w) == w[2]

RECURSIVE Pow2N(_)
Pow2N(n) == IF n = 0 THEN 1 ELSE 2 * Pow2N(n - 1)

\* 2^n for n <= 16, tabulated
Pow2Table == [n \in 0..16 |-> Pow2N(n)]

Pow2(n) == Pow2Table[n]

RECURSIVE XorN(_, _, _)
XorN(a, b, n) ==
  IF n = 0 THEN 0
  ELSE ((a + b) % 2) + 2 * XorN(a \div 2, b \div 2, n - 1)

RECURSIVE OrN(_, _, _)
OrN(a, b, n) ==
  IF n = 0 THEN 0
  ELSE (IF (a % 2) + (b % 2) > 0 THEN 1 ELSE 0) + 2 * OrN(a \div 2, b \div 2, n - 1)

\* ^ on 4-bit digits, tabulated
XorDigit == [a \in 0..15 |-> [b \in 0..15 |-> XorN(a, b, 4)]]

Xor8(a, b) == XorDigit[a \div 16][b \div 16] * 16 + XorDigit[a % 16][b % 16]

Xor16(a, b) == Xor8(a \div B8, b \div B8) * B8 + Xor8(a % B8, b % B8)

\* x ^ y
Xor32(x, y) == W(Xor16(Hi(x), Hi(y)), Xor16(Lo(x), Lo(y)))

\* c | x for a constant c < 2^8
OrLow(c, x) == W(Hi(x), (Lo(x) \div B8) * B8 + OrN(c, Lo(x) % B8, 8))

\* x >>> n for 0 < n < 16
Shr(x, n) ==
  W(Hi(x) \div Pow2(n), (Hi(x) % Pow2(n)) * Pow2(16 - n) + Lo(x) \div Pow2(n))

\* (x + y) >>> 0
Add32(x, y) ==
  W((Hi(x) + Hi(y) + (Lo(x) + Lo(y)) \div B16) % B16, (Lo(x) + Lo(y)) % B16)

\* (0 - x) >>> 0
Neg32(x) ==
  IF Lo(x) = 0 THEN W((B16 - Hi(x)) % B16, 0)
  ELSE W(B16 - 1 - Hi(x), B16 - Lo(x))

\* Math.imul(x, y): the low 32 bits of the product, by bytes
ImulBytes(x0, x1, x2, x3, y0, y1, y2, y3) ==
  LET c0 == x0 * y0
      c1 == x0 * y1 + x1 * y0
      c2 == x0 * y2 + x1 * y1 + x2 * y0
      c3 == x0 * y3 + x1 * y2 + x2 * y1 + x3 * y0
      l  == c0 + (c1 % B8) * B8
      h  == l \div B16 + c1 \div B8 + c2 + (c3 % B8) * B8
  IN  W(h % B16, l % B16)

Imul(x, y) ==
  ImulBytes(Lo(x) % B8, Lo(x) \div B8, Hi(x) % B8, Hi(x) \div B8,
            Lo(y) % B8, Lo(y) \div B8, Hi(y) % B8, Hi(y) \div B8)

\* Math.floor((k / 2^32) * n) for an integer 0 <= n < 2^15
FloorMul(k, n) == (Hi(k) * n + (Lo(k) * n) \div B16) \div B16


-----------------------------------------------------------------------------
(* core/prng.ts: seed hashing and the stream generator *)

\* 0x811c9dc5, the FNV offset basis
FnvBasis == W(33052, 40389)

\* 0x6d2b79f5, the increment of mulberry32
Weyl == W(27947, 31221)

\* hash << n, kept to 32 bits, for 0 < n < 16
Shl(x, n) ==
  W(((Hi(x) % Pow2(16 - n)) * Pow2(n) + Lo(x) \div Pow2(16 - n)) % B16,
    (Lo(x) % Pow2(16 - n)) * Pow2(n))

\* hash << 24, kept to 32 bits
Shl24(x) == W((Lo(x) % B8) * B8, 0)

\* the sum with the term hash << 8 left out
FnvSumShort(x) ==
  Pick({Add32(x, s) : s \in
    {Pick({Add32(s3, Shl24(x)) : s3 \in
      {Pick({Add32(s2, Shl(x, 7)) : s2 \in {Add32(Shl(x, 1), Shl(x, 4))}})}})}})

\* one round of the string hash: hash ^= c; hash = (hash + (hash<<1) + ...) >>> 0
FnvSum(x) ==
  Pick({Add32(x, s) : s \in
    {Pick({Add32(s4, Shl24(x)) : s4 \in
      {Pick({Add32(s3, Shl(x, 8)) : s3 \in
        {Pick({Add32(s2, Shl(x, 7)) : s2 \in {Add32(Shl(x, 1), Shl(x, 4))}})}})}})}})

FnvRound(h, c) == Pick({FnvSum(x) : x \in {Xor32(h, W(0, c))}})

RECURSIVE FnvFold(_, _, _)
FnvFold(h, cs, i) ==
  IF i > Len(cs) THEN h
  ELSE Pick({FnvFold(x, cs, i + 1) : x \in {FnvRound(h, cs[i])}})

\* Seeds.  A number is [t |-> "num", neg, w]: an integer of magnitude
\* w[1] + w[2] * 2^16 + w[3] * 2^32 + ...; a text is [t |-> "str", w] with w its
\* UTF-16 code units; Undefined is the omitted seed.
Undefined == [t |-> "undef", neg |-> FALSE, w |-> <<>>]

Num(n) == [t |-> "num", neg |-> n < 0, w |-> <<(IF n < 0 THEN 0 - n ELSE n) % B16,
                                                 (IF n < 0 THEN 0 - n ELSE n) \div B16>>]

NumW(k) == [t |-> "num", neg |-> FALSE, w |-> <<Lo(k), Hi(k)>>]

Str(cs) == [t |-> "str", neg |-> FALSE, w |-> cs]

Limb(ws, i) == IF i <= Len(ws) THEN ws[i] ELSE 0

\* a toSeed that forgets the sign: Math.abs(input) >>> 0
toSeedAbs(input) ==
  IF input.t = "num" THEN W(Limb(input.w, 2), Limb(input.w, 1))
  ELSE FnvFold(FnvBasis, input.w, 1)

\* input >>> 0 for an integer, the FNV-1a fold for a text
toSeed(input) ==
  IF input.t = "num"
  THEN IF input.neg THEN Neg32(W(Limb(input.w, 2), Limb(input.w, 1)))
       ELSE W(Limb(input.w, 2), Limb(input.w, 1))
  ELSE FnvFold(FnvBasis, input.w, 1)

\* the state mulberry32's next() leaves: a = (a + 0x6d2b79f5) >>> 0
Advance(a) == Add32(a, Weyl)

\* the numerator of the value next() returns, from the new state a
Temper1(a) == Pick({Imul(x, OrLow(1, a)) : x \in {Xor32(a, Shr(a, 15))}})

Temper2(t) ==
  Pick({Xor32(s, t) : s \in
    {Pick({Add32(t, m) : m \in
      {Pick({Imul(x, OrLow(61, t)) : x \in {Xor32(t, Shr(t, 7))}})}})}})

Temper(a) ==
  Pick({Xor32(t2, Shr(t2, 14)) : t2 \in {Pick({Temper2(t1) : t1 \in {Temper1(a)}})}})

\* the state after n calls of next()
RECURSIVE AdvanceN(_, _)
AdvanceN(a, n) == IF n = 0 THEN a ELSE AdvanceN(Advance(a), n - 1)


-----------------------------------------------------------------------------
(* RNG objects.  The heap maps the identity of every live RNG object to the *)
(* variable a of its mulberry32 closure.                                    *)

NoRng == 0

NewId(h) == CHOOSE i \in 1..(Cardinality(DOMAIN h) + 1) :
              i \notin DOMAIN h /\ \A j \in 1..(i - 1) : j \in DOMAIN h

\* 0xdecafbad, the seed rngFrom uses when it is given no fallback
FallbackSeed == [t |-> "num", neg |-> FALSE, w |-> <<64429, 57034>>]

\* createRNG(seed): a new object whose state is toSeed(seed)
createRNG(h, seed) ==
  Pick({[h |-> (id :> toSeed(seed)) @@ h, rng |-> id] : id \in {NewId(h)}})

\* a resolver that hands out a copy of the fallback
rngFromCopy(h, seed, fallback) ==
  IF seed # Undefined THEN createRNG(h, seed)
  ELSE IF fallback # NoRng
       THEN [h |-> (NewId(h) :> h[fallback]) @@ h, rng |-> NewId(h)]
  ELSE createRNG(h, FallbackSeed)

\* a resolver that tests truthiness: seed ? createRNG(seed) : fallback ?? ...
rngFromTruthy(h, seed, fallback) ==
  IF seed # Undefined /\ (\E i \in DOMAIN seed.w : seed.w[i] # 0)
  THEN createRNG(h, seed)
  ELSE IF fallback # NoRng THEN [h |-> h, rng |-> fallback]
  ELSE createRNG(h, FallbackSeed)

\* rngFrom(seed, fallback): seed !== undefined ? createRNG(seed) : fallback ?? ...
rngFrom(h, seed, fallback) ==
  IF seed # Undefined THEN createRNG(h, seed)
  ELSE IF fallback # NoRng THEN [h |-> h, rng |-> fallback]
  ELSE createRNG(h, FallbackSeed)

\* a next() that computes the value from the state before the increment
nextFromOld(h, rng) ==
  Pick({[h |-> [h EXCEPT ![rng] = a], k |-> Temper(h[rng])] : a \in {Advance(h[rng])}})

\* rng.next(): the object advances, k / 2^32 is returned
next(h, rng) ==
  Pick({[h |-> [h EXCEPT ![rng] = a], k |-> Temper(a)] : a \in {Advance(h[rng])}})

\* rng.next() * 2 ** 32, the seed handed to a nested generator
ChildSeed(k) == NumW(k)

-----------------------------------------------------------------------------
(* Numbers of the callers: a finite number is n / Den, the others are NaN   *)
(* and the two infinities.  A value returned is a tuple of integers.        *)

Den == 2

Fin(n) == [k |-> "fin", n |-> n]

NaN == [k |-> "nan", n |-> 0]

PosInf == [k |-> "inf", n |-> 1]

NegInf == [k |-> "inf", n |-> -1]

\* !Number.isNaN in the place of Number.isFinite
IsFiniteNotNaN(x) == x.k # "nan"

\* Number.isFinite
IsFinite(x) == x.k = "fin"

\* min > max (false when either is NaN)
Gt(x, y) ==
  CASE x.k = "nan" \/ y.k = "nan" -> FALSE
    [] x.k = "inf" /\ y.k = "inf" -> x.n > y.n
    [] x.k = "inf" -> x.n > 0
    [] y.k = "inf" -> y.n < 0
    [] OTHER -> x.n > y.n

\* Math.floor and Math.ceil of n / Den
Floor(n) == n \div Den

Ceil(n) == 0 - ((0 - n) \div Den)

\* the fraction of k * n / 2^32, as a numerator over 2^32
FracMul(k, n) ==
  W((Hi(k) * n + (Lo(k) * n) \div B16) % B16, (Lo(k) * n) % B16)

Ret(h, v) == [h |-> h, v |-> v, err |-> "none"]

Throw(h, e) == [h |-> h, v |-> <<>>, err |-> e]

\* the float (n + k * d / 2^32) / Den, exactly: <<floor of the numerator, fraction>>
FloatVal(n, k, d) == <<n + FloorMul(k, d), Hi(FracMul(k, d)), Lo(FracMul(k, d))>>

-----------------------------------------------------------------------------
(* core/prng.ts: the methods of an RNG object *)

\* the swap left out
LowerNoSwap(min, max) == min

\* if (min > max) [min, max] = [max, min]
Lower(min, max) == IF Gt(min, max) THEN max ELSE min

Upper(min, max) == IF Gt(min, max) THEN min ELSE max

\* lo = Math.ceil(min) taken before the swap
IntLoNoSwap(min, max) == Ceil(min.n)

\* hi = Math.ceil(max) in the place of Math.floor(max)
IntHiCeil(min, max) == Ceil(Upper(min, max).n)

\* lo = Math.ceil(min), hi = Math.floor(max), after the swap
IntLo(min, max) == Ceil(Lower(min, max).n)

IntHi(min, max) == Floor(Upper(min, max).n)

\* rng.int(min, max)
RngInt(h, rng, min, max) ==
  IF ~IsFinite(min) \/ ~IsFinite(max) THEN Throw(h, "TypeError")
  ELSE Pick({Ret(d.h, <<FloorMul(d.k, IntHi(min, max) - IntLo(min, max) + 1)
                          + IntLo(min, max)>>) : d \in {next(h, rng)}})

\* rng.float(min, max)
RngFloat(h, rng, min, max) ==
  IF ~IsFinite(min) \/ ~IsFinite(max) THEN Throw(h, "TypeError")
  ELSE Pick({Ret(d.h, FloatVal(Lower(min, max).n, d.k,
                               Upper(min, max).n - Lower(min, max).n)) :
             d \in {next(h, rng)}})

\* rng.next() called by a caller: the two 16-bit halves of k
RngNext(h, rng) == Pick({Ret(d.h, <<Hi(d.k), Lo(d.k)>>) : d \in {next(h, rng)}})

\* rng.pick without the test for an empty array
RngPickNoCheck(h, rng, len) ==
  Pick({Ret(d.h, <<FloorMul(d.k, len)>>) : d \in {next(h, rng)}})

\* rng.pick(arr), arr given by its length; the index picked is returned
RngPick(h, rng, len) ==
  IF len = 0 THEN Throw(h, "RangeError")
  ELSE Pick({Ret(d.h, <<FloorMul(d.k, len)>>) : d \in {next(h, rng)}})

-----------------------------------------------------------------------------
(* The public generators.  h is the heap, g the object getGlobalRng()      *)
(* returns, seed the caller's opts.seed (Undefined when omitted).          *)

Max(a, b) == IF a > b THEN a ELSE b

\* number.int(min, max, opts)
NumberInt(h, g, min, max, seed) ==
  Pick({IF ~IsFinite(min) \/ ~IsFinite(max) THEN Throw(r.h, "TypeError")
        ELSE Pick({Ret(d.h, <<FloorMul(d.k, IntHi(min, max) - IntLo(min, max) + 1)
                                + IntLo(min, max)>>) : d \in {next(r.h, r.rng)}}) :
        r \in {rngFrom(h, seed, g)}})

RECURSIVE Pow10(_)
Pow10(p) == IF p = 0 THEN 1 ELSE 10 * Pow10(p - 1)

\* Math.floor in the place of Math.round
RoundScaledFloor(lo, hi, k, factor) ==
  (lo * factor + FloorMul(k, (hi - lo) * factor)) \div Den

\* Math.round(n * factor) for n = (lo + k * (hi - lo) / 2^32) / Den, which is
\* floor(n * factor + 1/2)
RoundScaled(lo, hi, k, factor) ==
  (2 * lo * factor + Den + FloorMul(k, 2 * (hi - lo) * factor)) \div (2 * Den)

\* number.float(min, max, precision, opts): <<m, f>> is the number m / f
NumberFloat(h, g, min, max, precision, seed) ==
  Pick({IF ~IsFinite(min) \/ ~IsFinite(max) THEN Throw(r.h, "TypeError")
        ELSE Pick({Ret(d.h, <<RoundScaled(Lower(min, max).n, Upper(min, max).n, d.k,
                                          Pow10(Max(0, precision))),
                              Pow10(Max(0, precision))>>) :
                   d \in {next(r.h, r.rng)}}) :
        r \in {rngFrom(h, seed, g)}})

\* WORDS.length of string/index.ts
NWords == 19

\* string.word(opts): the index of the word in WORDS
StringWord(h, g, seed) ==
  Pick({Pick({Ret(d.h, <<FloorMul(d.k, NWords)>>) : d \in {next(r.h, r.rng)}}) :
        r \in {rngFrom(h, seed, g)}})

\* the charsets of the callers, by name: "" is the empty string, "DIGIT",
\* "UPPER", "LOWER" and "ALNUM" the constants of string/index.ts, "SYMBOLS" its
\* DEFAULT_SYMBOLS, "ab" a string of two characters
CharsetLen(f) ==
  CASE f = "" -> 0
    [] f = "ab" -> 2
    [] f = "DIGIT" -> 10
    [] f = "SYMBOLS" -> 10
    [] f = "UPPER" -> 26
    [] f = "LOWER" -> 26
    [] OTHER -> 62

\* string.char that draws before it validates the charset
StringCharDrawFirst(h, g, charset, seed) ==
  Pick({Pick({IF CharsetLen(charset) = 0 THEN Throw(d.h, "RangeError")
              ELSE Ret(d.h, <<FloorMul(d.k, CharsetLen(charset))>>) :
              d \in {next(r.h, r.rng)}}) :
        r \in {rngFrom(h, seed, g)}})

\* string.char(charset, opts): the index of the character in charset
StringChar(h, g, charset, seed) ==
  Pick({IF CharsetLen(charset) = 0 THEN Throw(r.h, "RangeError")
        ELSE Pick({Ret(d.h, <<FloorMul(d.k, CharsetLen(charset))>>) :
                   d \in {next(r.h, r.rng)}}) :
        r \in {rngFrom(h, seed, g)}})

RECURSIVE StringLoop(_, _, _, _, _, _)
StringLoop(h, g, rng, n, charset, out) ==
  IF n = 0 THEN Ret(h, out)
  ELSE Pick({Pick({StringLoop(c.h, g, rng, n - 1, charset, o) : o \in {out \o c.v}}) :
             c \in {Pick({StringChar(d.h, g, charset, ChildSeed(d.k)) :
                          d \in {next(h, rng)}})}})

\* string.string(length, charset, opts): the indices of its characters, in order
StringString(h, g, length, charset, seed) ==
  Pick({IF CharsetLen(charset) = 0 THEN Throw(r.h, "RangeError")
        ELSE StringLoop(r.h, g, r.rng, Max(0, length), charset, <<>>) :
        r \in {rngFrom(h, seed, g)}})

RECURSIVE SentenceLoop(_, _, _, _, _)
SentenceLoop(h, g, rng, n, words) ==
  IF n = 0 THEN Ret(h, words)
  ELSE Pick({Pick({SentenceLoop(w.h, g, rng, n - 1, ws) : ws \in {words \o w.v}}) :
             w \in {Pick({StringWord(d.h, g, ChildSeed(d.k)) : d \in {next(h, rng)}})}})

\* string.sentence(wordsCount, opts): the indices of its words, in order
StringSentence(h, g, wordsCount, seed) ==
  Pick({SentenceLoop(r.h, g, r.rng, Max(1, wordsCount), <<>>) :
        r \in {rngFrom(h, seed, g)}})

\* string.paragraph(sentencesCount, opts): the words of each sentence followed
\* by -1, the period that ends it
RECURSIVE ParagraphLoop(_, _, _, _, _)
ParagraphLoop(h, g, rng, n, out) ==
  IF n = 0 THEN Ret(h, out)
  ELSE Pick({Pick({ParagraphLoop(st.h, g, rng, n - 1, o) : o \in {out \o st.v \o <<-1>>}}) :
             st \in {Pick({Pick({StringSentence(d.h, g, 6 + FloorMul(c.k, 6), ChildSeed(d.k)) :
                                 d \in {next(c.h, rng)}}) :
                           c \in {next(h, rng)}})}})

StringParagraph(h, g, sentencesCount, seed) ==
  Pick({ParagraphLoop(r.h, g, r.rng, Max(1, sentencesCount), <<>>) :
        r \in {rngFrom(h, seed, g)}})

\* id.slug(wordsCount, opts): the indices of its words in WORDS of id/index.ts
RECURSIVE SlugLoop(_, _, _, _)
SlugLoop(h, rng, n, parts) ==
  IF n = 0 THEN Ret(h, parts)
  ELSE Pick({SlugLoop(d.h, rng, n - 1, Append(parts, FloorMul(d.k, 26))) :
             d \in {next(h, rng)}})

IdSlug(h, g, wordsCount, seed) ==
  Pick({SlugLoop(r.h, r.rng, Max(1, wordsCount), <<>>) : r \in {rngFrom(h, seed, g)}})

\* person.firstName(gender, opts): the index in MALE_FIRST, or 10 + the index in
\* FEMALE_FIRST; gender is "male", "female" or "" when it is not given
FirstName(h, g, gender, seed) ==
  Pick({CASE gender = "male" ->
               Pick({Ret(d.h, <<FloorMul(d.k, 10)>>) : d \in {next(r.h, r.rng)}})
          [] gender = "female" ->
               Pick({Ret(d.h, <<10 + FloorMul(d.k, 10)>>) : d \in {next(r.h, r.rng)}})
          [] OTHER ->
               Pick({Pick({Ret(d.h, <<(IF Hi(c.k) < 32768 THEN 0 ELSE 10)
                                      + FloorMul(d.k, 10)>>) :
                           d \in {next(c.h, r.rng)}}) :
                     c \in {next(r.h, r.rng)}}) :
        r \in {rngFrom(h, seed, g)}})

\* person.lastName(opts): the index in LAST
LastName(h, g, seed) ==
  Pick({Pick({Ret(d.h, <<FloorMul(d.k, 10)>>) : d \in {next(r.h, r.rng)}}) :
        r \in {rngFrom(h, seed, g)}})

\* a fullName that draws one seed and hands it to both names
FullNameOneSeed(h, g, gender, seed) ==
  Pick({Pick({Pick({Ret(l.h, f.v \o l.v) : l \in {LastName(f.h, g, ChildSeed(a.k))}}) :
              f \in {FirstName(a.h, g, gender, ChildSeed(a.k))}}) :
        a \in {Pick({next(r.h, r.rng) : r \in {rngFrom(h, seed, g)}})}})

\* a fullName that hands its own stream to firstName and lastName
FullNameShared(h, g, gender, seed) ==
  Pick({Pick({Pick({Ret(l.h, f.v \o l.v) : l \in {LastName(f.h, r.rng, Undefined)}}) :
              f \in {FirstName(r.h, r.rng, gender, Undefined)}}) :
        r \in {rngFrom(h, seed, g)}})

\* person.fullName(gender, opts): <<first name, last name>>
FullName(h, g, gender, seed) ==
  Pick({Pick({Pick({Ret(l.h, f.v \o l.v) :
                    l \in {Pick({LastName(b.h, g, ChildSeed(b.k)) :
                                 b \in {next(f.h, r.rng)}})}}) :
              f \in {Pick({FirstName(a.h, g, gender, ChildSeed(a.k)) :
                           a \in {next(r.h, r.rng)}})}}) :
        r \in {rngFrom(h, seed, g)}})

\* f[0] of a lower-cased first name, as a character code
FirstInitial(i) ==
  <<106, 106, 114, 109, 119, 100, 114, 106, 116, 99,
    109, 112, 106, 108, 101, 98, 115, 106, 115, 107>>[i + 1]

\* person.username(opts): <<f[0], last name, n>>
Username(h, g, seed) ==
  Pick({Pick({Pick({Pick({Ret(n.h, <<FirstInitial(f.v[1])>> \o l.v \o <<FloorMul(n.k, 1000)>>) :
                          n \in {next(l.h, r.rng)}}) :
                    l \in {Pick({LastName(b.h, g, ChildSeed(b.k)) :
                                 b \in {next(f.h, r.rng)}})}}) :
              f \in {Pick({FirstName(a.h, g, "", ChildSeed(a.k)) :
                           a \in {next(r.h, r.rng)}})}}) :
        r \in {rngFrom(h, seed, g)}})

\* person.email(domain, opts): the username before the @
Email(h, g, seed) ==
  Pick({Pick({Username(a.h, g, ChildSeed(a.k)) : a \in {next(r.h, r.rng)}}) :
        r \in {rngFrom(h, seed, g)}})

\* CITIES.length, and COUNTRIES.length: the list comes from the package
\* @mirawision/infopedia, its length is taken to be that of ISO 3166-1
NCities == 22

NCountries == 249

\* location.city, location.countryCode, location.zip
Index(h, g, len, seed) ==
  Pick({Pick({Ret(d.h, <<FloorMul(d.k, len)>>) : d \in {next(r.h, r.rng)}}) :
        r \in {rngFrom(h, seed, g)}})

RECURSIVE Digits(_, _, _, _)
Digits(h, rng, n, out) ==
  IF n = 0 THEN Ret(h, out)
  ELSE Pick({Digits(d.h, rng, n - 1, Append(out, FloorMul(d.k, 10))) : d \in {next(h, rng)}})

Zip(h, g, seed) ==
  Pick({Digits(r.h, r.rng, 5, <<>>) : r \in {rngFrom(h, seed, g)}})

\* location.address(opts): <<streetNum, street name, street type, city, zip, code>>
Address(h, g, seed) ==
  Pick({Pick({Pick({Pick({Pick({Pick({Pick({
      Ret(z.h, <<1 + FloorMul(n.k, 9999), FloorMul(sn.k, 10), FloorMul(st.k, 6)>>
                 \o c.v \o z.v \o cc.v) :
        z \in {Pick({Zip(e.h, g, ChildSeed(e.k)) : e \in {next(cc.h, r.rng)}})}}) :
        cc \in {Pick({Index(e.h, g, NCountries, ChildSeed(e.k)) : e \in {next(c.h, r.rng)}})}}) :
        c \in {Pick({Index(e.h, g, NCities, ChildSeed(e.k)) : e \in {next(st.h, r.rng)}})}}) :
        st \in {next(sn.h, r.rng)}}) :
        sn \in {next(n.h, r.rng)}}) :
        n \in {next(r.h, r.rng)}}) :
        r \in {rngFrom(h, seed, g)}})

\* internet.domain(tld, opts): the words of its slug
Domain(h, g, seed) ==
  Pick({Pick({IdSlug(a.h, g, 2, ChildSeed(a.k)) : a \in {next(r.h, r.rng)}}) :
        r \in {rngFrom(h, seed, g)}})

\* internet.url(protocols, opts): <<protocol>>, the words of the host, -1, the
\* words of the path
Url(h, g, seed) ==
  Pick({Pick({Pick({Pick({
      Ret(pa.h, <<FloorMul(pr.k, 2)>> \o ho.v \o <<-1>> \o pa.v) :
        pa \in {Pick({Pick({IdSlug(e.h, g, 2 + FloorMul(c.k, 2), ChildSeed(e.k)) :
                            e \in {next(c.h, r.rng)}}) :
                      c \in {next(ho.h, r.rng)}})}}) :
        ho \in {Pick({Domain(e.h, g, ChildSeed(e.k)) : e \in {next(pr.h, r.rng)}})}}) :
        pr \in {next(r.h, r.rng)}}) :
        r \in {rngFrom(h, seed, g)}})

\* bytes[6] = (bytes[6] & 0x0f) | 0x40; bytes[8] = (bytes[8] & 0x3f) | 0x80
UuidByte(i, b) ==
  IF i = 6 THEN (b % 16) + 64 ELSE IF i = 8 THEN (b % 64) + 128 ELSE b

RECURSIVE UuidLoop(_, _, _, _)
UuidLoop(h, rng, i, bytes) ==
  IF i = 16 THEN Ret(h, bytes)
  ELSE Pick({Pick({UuidLoop(d.h, rng, i + 1, bs) :
                   bs \in {Append(bytes, UuidByte(i, FloorMul(d.k, 256)))}}) :
             d \in {next(h, rng)}})

\* id.uuid(opts): its sixteen bytes
IdUuid(h, g, seed) ==
  Pick({UuidLoop(r.h, r.rng, 0, <<>>) : r \in {rngFrom(h, seed, g)}})

\* Time is counted in milliseconds on a calendar whose year has YearMs of them.
YearMs == 1000

\* new Date(2000, 0, 1) and new Date(2030, 11, 31) on that calendar
DefaultStart == 30000

DefaultEnd == 60997

\* start and end of date.date before the swap: opts.pastYears and
\* opts.futureYears are -1 when not set, t is the value of new Date()
DateStart(t, pastYears, futureYears) ==
  IF futureYears >= 0 THEN t
  ELSE IF pastYears >= 0 THEN t - Max(0, pastYears) * YearMs
  ELSE DefaultStart

DateEnd(t, pastYears, futureYears) ==
  IF futureYears >= 0 THEN t + Max(0, futureYears) * YearMs
  ELSE IF pastYears >= 0 THEN t
  ELSE DefaultEnd

\* start.getTime() + Math.floor(rng.next() * (end.getTime() - start.getTime() + 1))
DateMs(start, end, k) ==
  IF start > end THEN end + FloorMul(k, start - end + 1)
  ELSE start + FloorMul(k, end - start + 1)

\* date.date(opts) with opts.format "date" (none) or "unix"
DateDate(h, g, t, pastYears, futureYears, format, seed) ==
  Pick({Pick({Ret(d.h, <<IF format = "unix" THEN ms \div 1000 ELSE ms>>) :
              ms \in {DateMs(DateStart(t, pastYears, futureYears),
                             DateEnd(t, pastYears, futureYears), d.k)}}) :
        d \in {Pick({next(r.h, r.rng) : r \in {rngFrom(h, seed, g)}})}})

\* date.timestamp(opts)
DateTimestamp(h, g, t, seed) == DateDate(h, g, t, 10, -1, "unix", seed)

\* The character sets person.password pushes, in its order, for the options of
\* the callers: "none" disables the four sets, "digits" enables digits only,
\* "letters" upper and lower, "all" is the default.
PasswordSets(f) ==
  CASE f = "none" -> <<>>
    [] f = "digits" -> <<"digits">>
    [] f = "letters" -> <<"upper", "lower">>
    [] OTHER -> <<"symbols", "digits", "upper", "lower">>

SetLen(set) == IF set \in {"upper", "lower"} THEN 26 ELSE 10

\* set[i] as a character code
SetChar(set, i) ==
  CASE set = "symbols" -> <<33, 64, 35, 36, 37, 94, 38, 42, 95, 45>>[i + 1]
    [] set = "digits" -> 48 + i
    [] set = "upper" -> 65 + i
    [] OTHER -> 97 + i

\* for (const set of sets) out += set[Math.floor(rng.next() * set.length)]
RECURSIVE PasswordEach(_, _, _, _, _)
PasswordEach(h, rng, sets, i, out) ==
  IF i > Len(sets) THEN Ret(h, out)
  ELSE Pick({PasswordEach(d.h, rng, sets, i + 1,
                          Append(out, SetChar(sets[i], FloorMul(d.k, SetLen(sets[i]))))) :
             d \in {next(h, rng)}})

\* while (out.length < n) { set = sets[...]; out += set[...] }
RECURSIVE PasswordFill(_, _, _, _, _)
PasswordFill(h, rng, sets, n, out) ==
  IF Len(out) >= n THEN Ret(h, out)
  ELSE Pick({Pick({PasswordFill(e.h, rng, sets, n,
                                Append(out, SetChar(set, FloorMul(e.k, SetLen(set))))) :
                   e \in {next(d.h, rng)}, set \in {sets[FloorMul(d.k, Len(sets)) + 1]}}) :
             d \in {next(h, rng)}})

\* a password without the loop that takes one character from each set
PersonPasswordFillOnly(h, g, length, f, seed) ==
  Pick({IF Len(PasswordSets(f)) = 0 THEN Throw(r.h, "RangeError")
        ELSE PasswordFill(r.h, r.rng, PasswordSets(f), Max(1, length), <<>>) :
        r \in {rngFrom(h, seed, g)}})

\* person.password(length, options): its character codes, in order
PersonPassword(h, g, length, f, seed) ==
  Pick({IF Len(PasswordSets(f)) = 0 THEN Throw(r.h, "RangeError")
        ELSE Pick({PasswordFill(p.h, r.rng, PasswordSets(f), Max(1, length), p.v) :
                   p \in {PasswordEach(r.h, r.rng, PasswordSets(f), 1, <<>>)}}) :
        r \in {rngFrom(h, seed, g)}})

\* the templates of the callers, as character codes
Template(f) ==
  CASE f = "Aa#@!.\\-" -> <<65, 97, 35, 64, 33, 46, 92, 45>>
    [] f = "+1-###-###-####" ->
         <<43, 49, 45, 35, 35, 35, 45, 35, 35, 35, 45, 35, 35, 35, 35>>
    [] f = "A#\\" -> <<65, 35, 92>>
    [] f = "\\" -> <<92>>
    [] f = "\\#x\\\\" -> <<92, 35, 120, 92, 92>>
    [] f = "!-!" -> <<33, 45, 33>>
    [] OTHER -> <<>>

\* options.symbols of the callers: not given, 'ab', or the empty string
SymbolsOf(n) ==
  CASE n = 1 -> "ab"
    [] n = 2 -> ""
    [] OTHER -> "SYMBOLS"

\* every token taken for an alphanumeric one
ClassOfAlnum(ch, symbols) == "ALNUM"

\* the charset a token stands for
ClassOf(ch, symbols) ==
  CASE ch = 65 -> "UPPER"
    [] ch = 97 -> "LOWER"
    [] ch = 35 -> "DIGIT"
    [] ch = 64 -> "ALNUM"
    [] OTHER -> symbols

\* charset[i] as a character code
ClassChar(charset, i) ==
  CASE charset = "UPPER" -> 65 + i
    [] charset = "LOWER" -> 97 + i
    [] charset = "DIGIT" -> 48 + i
    [] charset = "SYMBOLS" -> SetChar("symbols", i)
    [] charset = "ab" -> 97 + i
    [] OTHER -> IF i < 26 THEN 65 + i ELSE IF i < 52 THEN 71 + i ELSE i - 4

RECURSIVE PatternLoop(_, _, _, _, _, _, _, _)
PatternLoop(h, g, rng, t, i, escaping, symbols, out) ==
  IF i > Len(t) THEN Ret(h, out)
  ELSE IF escaping THEN PatternLoop(h, g, rng, t, i + 1, FALSE, symbols, Append(out, t[i]))
  ELSE IF t[i] = 92
       THEN (IF i = Len(t) THEN Throw(h, "Error")
             ELSE PatternLoop(h, g, rng, t, i + 1, TRUE, symbols, out))
  ELSE IF t[i] \in {65, 97, 35, 64, 33}
       THEN Pick({IF c.err # "none" THEN Throw(c.h, c.err)
                  ELSE PatternLoop(c.h, g, rng, t, i + 1, FALSE, symbols,
                                   Append(out, ClassChar(ClassOf(t[i], symbols), c.v[1]))) :
                  c \in {Pick({StringChar(d.h, g, ClassOf(t[i], symbols), ChildSeed(d.k)) :
                               d \in {next(h, rng)}})}})
  ELSE IF t[i] = 46
       THEN Pick({PatternLoop(d.h, g, rng, t, i + 1, FALSE, symbols,
                              Append(out, 33 + FloorMul(d.k, 94))) :
                  d \in {next(h, rng)}})
  ELSE PatternLoop(h, g, rng, t, i + 1, FALSE, symbols, Append(out, t[i]))

\* string.pattern(template, options): its character codes, in order
StringPattern(h, g, f, n, seed) ==
  Pick({PatternLoop(r.h, g, r.rng, Template(f), 1, FALSE, SymbolsOf(n), <<>>) :
        r \in {rngFrom(h, seed, g)}})

\* person.phone(formatStr, opts)
PersonPhone(h, g, f, seed) == StringPattern(h, g, f, 0, seed)

\* Math.max and Math.min of two numbers
MathMax(x, y) ==
  IF x.k = "nan" \/ y.k = "nan" THEN NaN ELSE IF Gt(y, x) THEN y ELSE x

MathMin(x, y) ==
  IF x.k = "nan" \/ y.k = "nan" THEN NaN ELSE IF Gt(x, y) THEN y ELSE x

\* clamp(value, min, max) of core/utils.ts
Clamp(value, min, max) ==
  MathMin(MathMax(value, Lower(min, max)), Upper(min, max))

\* a bool that draws nothing when the probability decides the result
BooleanBoolShortCut(h, g, probability, seed) ==
  Pick({Pick({IF p.k = "nan" \/ p.n = 0 THEN Ret(r.h, <<0>>)
              ELSE IF p.n = Den THEN Ret(r.h, <<1>>)
              ELSE Pick({Ret(d.h, <<IF FloorMul(d.k, Den) < p.n THEN 1 ELSE 0>>) :
                         d \in {next(r.h, r.rng)}}) :
              p \in {Clamp(probability, Fin(0), Fin(Den))}}) :
        r \in {rngFrom(h, seed, g)}})

\* boolean.bool(probability, opts): 1 for true, 0 for false; k / 2^32 < n / Den
\* exactly when floor(k * Den / 2^32) < n
BooleanBool(h, g, probability, seed) ==
  Pick({Pick({Pick({Ret(d.h, <<IF p.k # "nan" /\ FloorMul(d.k, Den) < p.n THEN 1 ELSE 0>>) :
                    d \in {next(r.h, r.rng)}}) :
              p \in {Clamp(probability, Fin(0), Fin(Den))}}) :
        r \in {rngFrom(h, seed, g)}})

\* a factory handed to util.array by the caller: a seedless generator call or a literal
Factory(h, g, f) ==
  CASE f = "word" -> StringWord(h, g, Undefined)
    [] f = "uuid" -> IdUuid(h, g, Undefined)
    [] OTHER -> Ret(h, <<7>>)

RECURSIVE ArrayLoop(_, _, _, _, _, _)
ArrayLoop(h, g, rng, n, f, out) ==
  IF n = 0 THEN Ret(h, out)
  ELSE Pick({Pick({ArrayLoop(e.h, g, rng, n - 1, f, o) : o \in {out \o e.v}}) :
             e \in {Pick({Factory(d.h, g, f) : d \in {next(h, rng)}})}})

\* util.array(length, factory, opts): its elements, in order
UtilArray(h, g, length, f, seed) ==
  Pick({ArrayLoop(r.h, g, r.rng, Max(0, length), f, <<>>) :
        r \in {rngFrom(h, seed, g)}})


\* the schemas of the callers: the fields in key order, each a function that
\* calls a seedless generator or a literal
Schema(f) ==
  CASE f = "word" -> <<"word">>
    [] f = "word+lit" -> <<"word", "lit">>
    [] OTHER -> <<>>

RECURSIVE ObjectLoop(_, _, _, _, _, _)
ObjectLoop(h, g, rng, fields, i, out) ==
  IF i > Len(fields) THEN Ret(h, out)
  ELSE Pick({Pick({ObjectLoop(d.h, g, rng, fields, i + 1, out \o e.v) :
                   d \in {next(e.h, rng)}}) :
             e \in {Factory(h, g, fields[i])}})

\* util.object(schema, opts): the values of its fields, in key order
UtilObject(h, g, f, seed) ==
  Pick({ObjectLoop(r.h, g, r.rng, Schema(f), 1, <<>>) : r \in {rngFrom(h, seed, g)}})

RECURSIVE ObjectManyLoop(_, _, _, _, _, _)
ObjectManyLoop(h, g, rng, n, f, out) ==
  IF n = 0 THEN Ret(h, out)
  ELSE Pick({Pick({ObjectManyLoop(o.h, g, rng, n - 1, f, out \o o.v \o <<-1>>) :
                   o \in {UtilObject(d.h, g, f, ChildSeed(d.k))}}) :
             d \in {next(h, rng)}})

\* util.objectMany(n, schema, opts): the fields of each object followed by -1
UtilObjectMany(h, g, n, f, seed) ==
  Pick({ObjectManyLoop(r.h, g, r.rng, Max(0, n), f, <<>>) :
        r \in {rngFrom(h, seed, g)}})

\* util.auto(spec, opts) of a function or a literal
AutoLeaf(h, g, fld, seed) ==
  Pick({Factory(r.h, g, fld) : r \in {rngFrom(h, seed, g)}})

RECURSIVE AutoLoop(_, _, _, _, _, _)
AutoLoop(h, g, rng, fields, i, out) ==
  IF i > Len(fields) THEN Ret(h, out)
  ELSE Pick({Pick({AutoLoop(e.h, g, rng, fields, i + 1, out \o e.v) :
                   e \in {AutoLeaf(d.h, g, fields[i], ChildSeed(d.k))}}) :
             d \in {next(h, rng)}})

\* util.auto(spec, opts) of an object whose properties are functions and literals
UtilAuto(h, g, f, seed) ==
  Pick({AutoLoop(r.h, g, r.rng, Schema(f), 1, <<>>) : r \in {rngFrom(h, seed, g)}})

-----------------------------------------------------------------------------
(* The program: the module variable globalRng of core/seed.ts, the heap of  *)
(* RNG objects, and the wall clock.  The other variables record what the    *)
(* caller did since the last seed(): the seed, the calls, what they         *)
(* returned, and the state the global stream had before the last operation. *)

\* 0x12345678, the seed of the global stream at module load
DefaultSeed == [t |-> "num", neg |-> FALSE, w |-> <<22136, 4660>>]

\* the value of new Date() when the program starts, and the step of the clock
Now0 == 55000

TickMs == 1000

MaxTicks == 1

MaxCalls == 2

\* objects no variable refers to are collected
Collect(h, g) == (g :> h[g])

\* the logical tasks that share the process
Tasks == {"A", "B"}

Call(op, x, y, n, f, seed) == [op |-> op, x |-> x, y |-> y, n |-> n, f |-> f, seed |-> seed]

\* one call of the public interface
Eval(h, g, t, c) ==
  CASE c.op = "number.int" -> NumberInt(h, g, c.x, c.y, c.seed)
    [] c.op = "number.float" -> NumberFloat(h, g, c.x, c.y, c.n, c.seed)
    [] c.op = "rng.int" -> RngInt(h, g, c.x, c.y)
    [] c.op = "rng.float" -> RngFloat(h, g, c.x, c.y)
    [] c.op = "rng.pick" -> RngPick(h, g, c.n)
    [] c.op = "rng.next" -> RngNext(h, g)
    [] c.op = "string.word" -> StringWord(h, g, c.seed)
    [] c.op = "string.sentence" -> StringSentence(h, g, c.n, c.seed)
    [] c.op = "id.uuid" -> IdUuid(h, g, c.seed)
    [] c.op = "date.timestamp" -> DateTimestamp(h, g, t, c.seed)
    [] c.op = "date.date" -> DateDate(h, g, t, c.n, -1, c.f, c.seed)
    [] c.op = "util.array" -> UtilArray(h, g, c.n, c.f, c.seed)
    [] c.op = "string.char" -> StringChar(h, g, c.f, c.seed)
    [] c.op = "string.string" -> StringString(h, g, c.n, c.f, c.seed)
    [] c.op = "person.password" -> PersonPassword(h, g, c.n, c.f, c.seed)
    [] c.op = "string.paragraph" -> StringParagraph(h, g, c.n, c.seed)
    [] c.op = "person.firstName" -> FirstName(h, g, c.f, c.seed)
    [] c.op = "person.lastName" -> LastName(h, g, c.seed)
    [] c.op = "person.fullName" -> FullName(h, g, c.f, c.seed)
    [] c.op = "person.username" -> Username(h, g, c.seed)
    [] c.op = "person.email" -> Email(h, g, c.seed)
    [] c.op = "location.city" -> Index(h, g, NCities, c.seed)
    [] c.op = "location.countryCode" -> Index(h, g, NCountries, c.seed)
    [] c.op = "location.zip" -> Zip(h, g, c.seed)
    [] c.op = "location.address" -> Address(h, g, c.seed)
    [] c.op = "id.slug" -> IdSlug(h, g, c.n, c.seed)
    [] c.op = "internet.domain" -> Domain(h, g, c.seed)
    [] c.op = "internet.url" -> Url(h, g, c.seed)
    [] c.op = "util.object" -> UtilObject(h, g, c.f, c.seed)
    [] c.op = "util.objectMany" -> UtilObjectMany(h, g, c.n, c.f, c.seed)
    [] c.op = "util.auto" -> UtilAuto(h, g, c.f, c.seed)
    [] c.op = "string.pattern" -> StringPattern(h, g, c.f, c.n, c.seed)
    [] c.op = "person.phone" -> PersonPhone(h, g, c.f, c.seed)
    [] c.op = "boolean.bool" -> BooleanBool(h, g, c.x, c.seed)

Out(r) == [v |-> r.v, err |-> r.err]

\* the seeds and the calls the callers of the model make
Seeds == {Num(0), Num(42), Str(<<>>), Str(<<116, 101, 115, 116>>)}

LocalSeeds == {Undefined, Num(0), Str(<<>>), Num(7)}

Calls ==
  {Call("number.int", Fin(2), Fin(12), 0, "", s) : s \in LocalSeeds}
  \cup {Call("string.word", NaN, NaN, 0, "", s) : s \in LocalSeeds}
  \cup {Call("string.sentence", NaN, NaN, 2, "", s) : s \in {Undefined, Num(7)}}
  \cup {Call("date.timestamp", NaN, NaN, 0, "", s) : s \in {Undefined, Num(7)}}
  \cup {Call("util.array", NaN, NaN, 2, "word", s) : s \in {Undefined, Num(7)}}

Init ==
  /\ heap = (1 :> toSeed(DefaultSeed))
  /\ globalRng = 1
  /\ now = Now0
  /\ curSeed = DefaultSeed
  /\ script = <<>>
  /\ outs = <<>>
  /\ pre = toSeed(DefaultSeed)
  /\ stack = <<>>
  /\ recv = [t \in Tasks |-> <<>>]
  /\ seq = <<>>

\* a seed(value) that builds the stream and does not install it
seedNotInstalled(value) ==
  /\ pre' = heap[globalRng]
  /\ curSeed' = value
  /\ script' = <<>>
  /\ outs' = <<>>
  /\ UNCHANGED <<heap, globalRng, now>>
  /\ UNCHANGED ctl

\* seed(value)
seed(value) ==
  /\ \E r \in {createRNG(heap, value)} :
       /\ globalRng' = r.rng
       /\ heap' = Collect(r.h, r.rng)
  /\ pre' = heap[globalRng]
  /\ curSeed' = value
  /\ script' = <<>>
  /\ outs' = <<>>
  /\ UNCHANGED now
  /\ UNCHANGED ctl

\* a generator is called
Generate(c) ==
  /\ Len(script) < MaxCalls
  /\ \E r \in {Eval(heap, globalRng, now, c)} :
       /\ heap' = Collect(r.h, globalRng)
       /\ outs' = Append(outs, Out(r))
  /\ script' = Append(script, c)
  /\ pre' = heap[globalRng]
  /\ UNCHANGED <<globalRng, now, curSeed>>
  /\ UNCHANGED ctl

\* time passes
Tick ==
  /\ now < Now0 + MaxTicks * TickMs
  /\ now' = now + TickMs
  /\ UNCHANGED <<heap, globalRng, curSeed, script, outs, pre>>
  /\ UNCHANGED ctl

Next ==
  \/ \E v \in Seeds : seed(v)
  \/ \E c \in Calls : Generate(c)
  \/ Tick

Spec == Init /\ [][Next]_vars

\* The callers of int and float: every pair of bounds of RangeBounds, with the
\* stream at most MaxDraws values past its seed; script and outs keep the last
\* call only.
MaxDraws == 2

RangeBounds == {NaN, PosInf, NegInf, Fin(-3), Fin(1), Fin(4)}

RangeCalls ==
  {Call(op, x, y, 2, "", Undefined) :
     op \in {"rng.int", "rng.float", "number.int", "number.float"},
     x \in RangeBounds, y \in RangeBounds}

\* fewer than MaxDraws values were drawn since the last seed()
MayDraw ==
  heap[globalRng] \in {AdvanceN(toSeed(curSeed), i) : i \in 0..(MaxDraws - 1)}

Apply(c) ==
  /\ \E r \in {Eval(heap, globalRng, now, c)} :
       /\ heap' = Collect(r.h, globalRng)
       /\ outs' = <<Out(r)>>
  /\ script' = <<c>>
  /\ pre' = heap[globalRng]
  /\ UNCHANGED <<globalRng, now, curSeed>>
  /\ UNCHANGED ctl

NextRange ==
  \/ \E v \in Seeds : seed(v)
  \/ MayDraw /\ \E c \in RangeCalls : Apply(c)

SpecRange == Init /\ [][NextRange]_vars

\* The callers of the validating operations: pick on arrays of 0..MaxPick
\* elements, int and float with bounds that are not finite, char, string and
\* password with and without characters to choose from.
MaxPick == 3

CoreCalls ==
  {Call("rng.pick", NaN, NaN, n, "", Undefined) : n \in 0..MaxPick}
  \cup {Call("rng.int", NaN, Fin(4), 0, "", Undefined),
        Call("rng.float", Fin(1), PosInf, 0, "", Undefined),
        Call("number.int", NegInf, Fin(1), 0, "", Undefined),
        Call("number.int", Fin(2), Fin(12), 0, "", Undefined),
        Call("number.float", NaN, NaN, 2, "", Undefined),
        Call("string.word", NaN, NaN, 0, "", Undefined)}
  \cup {Call(op, NaN, NaN, 2, f, Undefined) :
          op \in {"string.char", "string.string"}, f \in {"", "ab"}}
  \cup {Call("person.password", NaN, NaN, 3, f, Undefined) : f \in {"none", "digits"}}

\* The callers of seed(): integers of up to three 16-bit digits, negative ones
\* and ones at or above 2^32 included, and texts of up to MaxText characters.
\* The seed a caller uses is drawn at the start and passed to seed().
MaxText == 3

IntSeeds ==
  {[t |-> "num", neg |-> s, w |-> <<a, b, c>>] :
     s \in BOOLEAN, a \in {0, 1, B16 - 1}, b \in {0, 1, B16 - 1}, c \in {0, 1}}

RECURSIVE Texts(_)
Texts(n) ==
  IF n = 0 THEN {<<>>}
  ELSE Texts(n - 1) \cup {Append(t, c) : t \in Texts(n - 1), c \in {97, 255, B16 - 1}}

TextSeeds == {Str(t) : t \in Texts(MaxText)}

SeedCalls ==
  {Call(op, NaN, NaN, 0, "", Undefined) : op \in {"string.word", "rng.next"}}

InitSeed ==
  /\ heap = (1 :> toSeed(DefaultSeed))
  /\ globalRng = 1
  /\ now = Now0
  /\ curSeed \in IntSeeds \cup TextSeeds
  /\ script = <<>>
  /\ outs = <<>>
  /\ pre = toSeed(DefaultSeed)
  /\ stack = <<>>
  /\ recv = [t \in Tasks |-> <<>>]
  /\ seq = <<>>

NextSeed ==
  \/ globalRng = 1 /\ seed(curSeed)
  \/ globalRng = 2 /\ \E c \in SeedCalls : Generate(c)

SpecSeed == InitSeed /\ [][NextSeed]_vars

\* The callers of the composite generators, with and without a local seed.
ComposeCalls ==
  {Call(op, NaN, NaN, 2, "ab", Undefined) : op \in {"string.string", "string.sentence"}}
  \cup {Call(op, NaN, NaN, 1, "", Undefined) :
          op \in {"string.paragraph", "person.username", "person.email",
                  "location.address", "internet.domain", "internet.url"}}
  \cup {Call(op, NaN, NaN, 1, "", Num(7)) : op \in {"location.address", "internet.url"}}
  \cup {Call("string.sentence", NaN, NaN, 2, "ab", Num(7))}
  \cup {Call("person.fullName", NaN, NaN, 0, gender, sd) :
          gender \in {"", "male", "female"}, sd \in {Undefined, Num(7)}}

NextCompose ==
  \/ \E v \in Seeds : seed(v)
  \/ \E c \in ComposeCalls : Generate(c)

SpecCompose == Init /\ [][NextCompose]_vars

NextCore ==
  \/ \E v \in Seeds : seed(v)
  \/ \E c \in CoreCalls : Generate(c)

SpecCore == Init /\ [][NextCore]_vars


\* The callers of number.float: bounds in both orders and equal, precisions
\* from -1 to MaxPrecision, with the stream at most MaxDraws values past its
\* seed.
MaxPrecision == 2

FloatCalls ==
  {Call("number.float", x, y, p, "", Undefined) :
     x \in {Fin(-3), Fin(1), Fin(4)}, y \in {Fin(-3), Fin(1), Fin(4)},
     p \in -1..MaxPrecision}

NextFloat ==
  \/ \E v \in Seeds : seed(v)
  \/ MayDraw /\ \E c \in FloatCalls : Apply(c)

SpecFloat == Init /\ [][NextFloat]_vars

\* The callers of string.pattern, person.phone, person.password and
\* boolean.bool: one call on a stream at most MaxDraws values past its seed.
MaxLength == 5

PatternCalls ==
  {Call("string.pattern", NaN, NaN, n, f, Undefined) :
     n \in 0..2, f \in {"Aa#@!.\\-", "A#\\", "\\", "\\#x\\\\", "!-!"}}
  \cup {Call("person.phone", NaN, NaN, 0, "+1-###-###-####", sd) : sd \in {Undefined, Num(7)}}

PasswordCalls ==
  {Call("person.password", NaN, NaN, n, f, Undefined) :
     n \in -1..MaxLength, f \in {"none", "digits", "letters", "all"}}

BoolCalls ==
  {Call("boolean.bool", p, NaN, 0, "", sd) :
     p \in {NaN, PosInf, NegInf} \cup {Fin(n) : n \in -1..(2 * Den)},
     sd \in {Undefined, Num(7)}}

NextForms ==
  \/ \E v \in Seeds : seed(v)
  \/ MayDraw /\ \E c \in PatternCalls \cup PasswordCalls \cup BoolCalls : Apply(c)

SpecForms == Init /\ [][NextForms]_vars

\* The callers of the generators that take no callback, each with a local seed:
\* one call on a stream at most MaxDraws values past its seed.
EquivCalls ==
  {Call(op, Fin(2), Fin(12), 2, "", sd) :
     op \in {"number.int", "number.float", "string.word", "string.sentence",
             "string.paragraph", "id.uuid", "id.slug", "date.timestamp",
             "person.lastName", "person.username", "person.email",
             "location.city", "location.countryCode", "location.zip",
             "location.address", "internet.domain", "internet.url"},
     sd \in LocalSeeds \ {Undefined}}
  \cup {Call(op, Fin(1), NaN, 2, f, sd) :
          op \in {"string.char", "string.string", "boolean.bool"},
          f \in {"ab", ""}, sd \in LocalSeeds \ {Undefined}}
  \cup {Call("person.password", NaN, NaN, 3, f, sd) :
          f \in {"none", "digits"}, sd \in LocalSeeds \ {Undefined}}
  \cup {Call(op, NaN, NaN, 0, gender, sd) :
          op \in {"person.firstName", "person.fullName"},
          gender \in {"", "female"}, sd \in LocalSeeds \ {Undefined}}
  \cup {Call("string.pattern", NaN, NaN, 0, f, sd) :
          f \in {"Aa#@!.\\-", "A#\\"}, sd \in LocalSeeds \ {Undefined}}

NextEquiv ==
  \/ \E v \in Seeds : seed(v)
  \/ MayDraw /\ \E c \in EquivCalls : Apply(c)

SpecEquiv == Init /\ [][NextEquiv]_vars

\* The callers of util.object, util.objectMany and util.auto, with and without
\* a local seed.
UtilCalls ==
  {Call(op, NaN, NaN, 2, f, sd) :
     op \in {"util.object", "util.objectMany", "util.auto"},
     f \in {"word", "word+lit"}, sd \in {Undefined, Num(7)}}

NextUtil ==
  \/ \E v \in Seeds : seed(v)
  \/ \E c \in UtilCalls : Generate(c)

SpecUtil == Init /\ [][NextUtil]_vars

-----------------------------------------------------------------------------
(* One call, step by step.  The body of a public function is the sequence   *)
(* of the steps of its code that touch a stream: the call of rngFrom, a     *)
(* rng.next(), and the call of another public function, either with the     *)
(* caller's own seed option or with the value just drawn as the seed.       *)

\* rngFrom(opts?.seed, getGlobalRng())
ResolveStep == [k |-> "resolve", op |-> "", seed |-> ""]

\* rng.next()
DrawStep == [k |-> "draw", op |-> "", seed |-> ""]

\* op(..., { seed: opts?.seed })
ForwardStep(op) == [k |-> "call", op |-> op, seed |-> "own"]

\* op(..., { seed: <the value of the preceding rng.next()> * 2 ** 32 })
ChildStep(op) == [k |-> "call", op |-> op, seed |-> "drawn"]

\* pattern and phone are called with the template '#-#', firstName with a gender
Body(op) ==
  CASE op = "color.rgb" -> <<ResolveStep, DrawStep, DrawStep, DrawStep>>
    [] op = "color.rgba" -> <<ResolveStep, DrawStep, DrawStep, DrawStep, DrawStep>>
    [] op = "color.hex" -> <<ForwardStep("color.rgb")>>
    [] op = "color.hexa" -> <<ForwardStep("color.rgba")>>
    [] op = "date.date" -> <<ResolveStep, DrawStep>>
    [] op = "date.timestamp" -> <<ForwardStep("date.date")>>
    [] op = "string.char" -> <<ResolveStep, DrawStep>>
    [] op = "string.pattern" ->
         <<ResolveStep, DrawStep, ChildStep("string.char"),
           DrawStep, ChildStep("string.char")>>
    [] op = "person.phone" -> <<ForwardStep("string.pattern")>>
    [] op = "images.placeholder" -> <<>>
    [] op = "images.initials" -> <<>>
    [] op = "string.word" -> <<ResolveStep, DrawStep>>
    [] op = "person.firstName" -> <<ResolveStep, DrawStep>>
    [] op = "person.lastName" -> <<ResolveStep, DrawStep>>
    [] op = "person.fullName" ->
         <<ResolveStep, DrawStep, ChildStep("person.firstName"),
           DrawStep, ChildStep("person.lastName")>>

PublicOps ==
  {"color.rgb", "color.rgba", "color.hex", "color.hexa", "date.date",
   "date.timestamp", "string.char", "string.pattern", "person.phone",
   "images.placeholder", "images.initials", "string.word", "person.firstName",
   "person.lastName", "person.fullName"}

\* a frame: its function, the step it is at, its seed option, how it was
\* called, the stream rngFrom gave it, the number of its own calls of rngFrom,
\* the number of those made by the functions it handed its seed to, the
\* number of values drawn since it was entered, whether one of them was drawn
\* before its own call of rngFrom, and the last value of its rng.next()
Frame(op, sd, how) ==
  [op |-> op, at |-> 1, seed |-> sd, how |-> how, rng |-> NoRng, resolves |-> 0,
   fwd |-> 0, draws |-> 0, early |-> FALSE, last |-> W(0, 0)]

Top == stack[Len(stack)]

Finished(fr) == fr.at > Len(Body(fr.op))

AtStep(k) ==
  /\ stack # <<>>
  /\ ~Finished(Top)
  /\ Body(Top.op)[Top.at].k = k

\* a delegate called without the seed of its caller
CalleeSeedDropped(fr, st) ==
  IF st.seed = "own" THEN Undefined ELSE ChildSeed(fr.last)

\* the seed option a function passes to the function it calls
CalleeSeed(fr, st) ==
  IF st.seed = "own" THEN fr.seed ELSE ChildSeed(fr.last)

\* the objects the frames and the registry refer to
Live(h, g, st) ==
  [i \in ({g} \cup {st[j].rng : j \in 1..Len(st)}) \ {NoRng} |-> h[i]]

\* a public function is called from outside
Enter(op, sd) ==
  /\ stack = <<>>
  /\ stack' = <<Frame(op, sd, "top")>>
  /\ pre' = heap[globalRng]
  /\ UNCHANGED <<heap, globalRng, now, curSeed, script, outs, recv, seq>>

DoResolve ==
  /\ AtStep("resolve")
  /\ \E r \in {rngFrom(heap, Top.seed, globalRng)} :
       /\ heap' = r.h
       /\ stack' = [stack EXCEPT ![Len(stack)] =
                      [@ EXCEPT !.at = @ + 1, !.rng = r.rng, !.resolves = @ + 1]]
  /\ UNCHANGED <<globalRng, now, curSeed, script, outs, pre, recv, seq>>

DoDraw ==
  /\ AtStep("draw")
  /\ \E d \in {next(heap, Top.rng)} :
       /\ heap' = d.h
       /\ stack' = [i \in 1..Len(stack) |->
                      [[stack[i] EXCEPT !.draws = @ + 1,
                                        !.early = @ \/ stack[i].resolves = 0]
                         EXCEPT !.at = IF i = Len(stack) THEN @ + 1 ELSE @,
                                !.last = IF i = Len(stack) THEN d.k ELSE @]]
  /\ UNCHANGED <<globalRng, now, curSeed, script, outs, pre, recv, seq>>

DoCall ==
  /\ AtStep("call")
  /\ \E st \in {Body(Top.op)[Top.at]} :
       stack' = Append([stack EXCEPT ![Len(stack)] = [@ EXCEPT !.at = @ + 1]],
                       Frame(st.op, CalleeSeed(Top, st), st.seed))
  /\ UNCHANGED <<heap, globalRng, now, curSeed, script, outs, pre, recv, seq>>

Return ==
  /\ stack # <<>>
  /\ Finished(Top)
  /\ \E rest \in {SubSeq(stack, 1, Len(stack) - 1)} :
       \E st \in {IF rest # <<>> /\ Top.how = "own"
                  THEN [rest EXCEPT ![Len(rest)] =
                          [@ EXCEPT !.fwd = @ + Top.resolves + Top.fwd]]
                  ELSE rest} :
         /\ stack' = st
         /\ heap' = Live(heap, globalRng, st)
  /\ UNCHANGED <<globalRng, now, curSeed, script, outs, pre, recv, seq>>

NextResolve ==
  \/ stack = <<>> /\ \E v \in Seeds : seed(v)
  \/ MayDraw /\ \E op \in PublicOps, sd \in {Undefined, Num(7)} : Enter(op, sd)
  \/ DoResolve
  \/ DoDraw
  \/ DoCall
  \/ Return

SpecResolve == Init /\ [][NextResolve]_vars

-----------------------------------------------------------------------------
(* Two logical tasks of one process.  Each makes the calls of its list in   *)
(* order; a call runs to completion and calls of the two tasks alternate in  *)
(* any order, while the clock advances.  In mode "global" no call names a     *)
(* seed, in mode "local" every call of a task names the seed of the task.     *)

Modes == {"global", "local"}

TaskSeed(t) == IF t = "A" THEN Num(7) ELSE Num(0)

OptSeed(t, m) == IF m = "local" THEN TaskSeed(t) ELSE Undefined

TaskList(t, m) ==
  IF t = "A"
  THEN <<Call("string.word", NaN, NaN, 0, "", OptSeed(t, m)),
         Call("date.timestamp", NaN, NaN, 0, "", OptSeed(t, m))>>
  ELSE <<Call("number.int", Fin(2), Fin(12), 0, "", OptSeed(t, m)),
         Call("string.word", NaN, NaN, 0, "", OptSeed(t, m))>>

\* the mode of the calls made so far
InMode(m) ==
  IF script = <<>> THEN TRUE ELSE (script[1].seed = Undefined <=> m = "global")

\* task t makes its next call
TaskCall(t, m) ==
  /\ InMode(m)
  /\ Len(recv[t]) < Len(TaskList(t, m))
  /\ \E c \in {TaskList(t, m)[Len(recv[t]) + 1]} :
       \E r \in {Eval(heap, globalRng, now, c)} :
         /\ heap' = Collect(r.h, globalRng)
         /\ outs' = Append(outs, Out(r))
         /\ recv' = [recv EXCEPT ![t] = Append(@, Out(r))]
         /\ script' = Append(script, c)
  /\ pre' = heap[globalRng]
  /\ UNCHANGED <<globalRng, now, curSeed, stack, seq>>

NextTasks ==
  \/ script = <<>> /\ \E v \in Seeds : seed(v)
  \/ \E t \in Tasks, m \in Modes : TaskCall(t, m)
  \/ Tick

SpecTasks == Init /\ [][NextTasks]_vars

-----------------------------------------------------------------------------
(* number.sequence: the object it returns keeps current and index; log is   *)
(* the list of the values emitted before map was applied.                   *)

\* the number of next() calls made on one sequence
MaxNext == 4

\* the options of the callers; ended is false when options.end is undefined
SeqOptions ==
  {[start |-> a, ended |-> (e # 0), end |-> e, step |-> st, loop |-> l, map |-> m] :
     a \in {1, 3, 6}, e \in {0, 3, 4}, st \in {-1, 1, 2}, l \in BOOLEAN,
     m \in {"none", "double", "index"}}

\* the map callbacks of the callers: none, x => x * 2, (x, i) => i
MapOf(m, value, index) ==
  CASE m = "double" -> value * 2
    [] m = "index" -> index
    [] OTHER -> value

\* a wrap as soon as end is reached
SeqAdvanceGe(o, current) ==
  IF ~o.ended THEN current + o.step
  ELSE IF o.step > 0 /\ current + o.step >= o.end
       THEN (IF o.loop THEN o.start ELSE o.end)
  ELSE current + o.step

\* no clamp to end when loop is false
SeqAdvanceNoClamp(o, current) ==
  IF ~o.ended THEN current + o.step
  ELSE IF o.step > 0 /\ current + o.step > o.end
       THEN (IF o.loop THEN o.start ELSE current + o.step)
  ELSE current + o.step

\* the value of current after one next()
SeqAdvance(o, current) ==
  IF ~o.ended THEN current + o.step
  ELSE IF o.step > 0 /\ current + o.step > o.end
       THEN (IF o.loop THEN o.start ELSE o.end)
  ELSE IF o.step < 0
          /\ current + o.step < (IF o.start < o.end THEN o.start ELSE o.end)
       THEN (IF o.loop THEN o.start ELSE o.end)
  ELSE current + o.step

\* number.sequence(options), called without a seed: rngFrom returns the global
\* stream, which the sequence never draws from
Sequence(o) ==
  /\ seq = <<>>
  /\ seq' = <<[opts |-> o, current |-> o.start, index |-> 0, log |-> <<>>]>>
  /\ outs' = <<>>
  /\ UNCHANGED <<heap, globalRng, now, curSeed, script, pre, stack, recv>>

\* api.next(), called directly (done is 0) or through the iterator, whose
\* result { value, done } is recorded as <<value, done>>
SeqNext(iter) ==
  /\ seq # <<>>
  /\ Len(outs) < MaxNext
  /\ \E s \in {seq[1]} :
       /\ outs' = Append(outs, Out(Ret(heap,
                      IF iter THEN <<MapOf(s.opts.map, s.current, s.index), 0>>
                      ELSE <<MapOf(s.opts.map, s.current, s.index)>>)))
       /\ seq' = <<[s EXCEPT !.current = SeqAdvance(s.opts, s.current),
                             !.index = @ + 1,
                             !.log = Append(@, s.current)]>>
  /\ UNCHANGED <<heap, globalRng, now, curSeed, script, pre, stack, recv>>

NextSequence ==
  \/ \E o \in SeqOptions : Sequence(o)
  \/ \E iter \in BOOLEAN : SeqNext(iter)

SpecSequence == Init /\ [][NextSequence]_vars

-----------------------------------------------------------------------------
(* Properties of the program *)

Last == script[Len(script)]

LastOut == outs[Len(outs)]

Global == heap[globalRng]

RECURSIVE ReplayOuts(_, _, _, _, _)
ReplayOuts(h, t, sc, i, acc) ==
  IF i > Len(sc) THEN acc
  ELSE Pick({ReplayOuts(Collect(r.h, 1), t, sc, i + 1, Append(acc, Out(r))) :
             r \in {Eval(h, 1, t, sc[i])}})

\* what seed(s) followed by the calls sc returns when it is run at time t
Replay(s, sc, t) == ReplayOuts((1 :> toSeed(s)), t, sc, 1, <<>>)

\* C1: seed(s) followed by a sequence of seedless generator calls returns the
\* same outputs on every repetition, whatever was called before seed(s): what
\* the calls since the last seed() returned is what the same calls return when
\* the program runs them first thing after seed(s).
C1_GlobalDeterminism ==
  (\A i \in 1..Len(script) : script[i].seed = Undefined)
    => outs = Replay(curSeed, script, Now0)

\* C2: a call with a local seed returns a value that depends on the seed and the
\* other arguments only: it returns what the same call returns in a program
\* that has just started.
C2_LocalIsolation ==
  \A i \in 1..Len(script) :
    script[i].seed # Undefined
      => outs[i] = Out(Eval((1 :> toSeed(DefaultSeed)), 1, Now0, script[i]))

\* C3: a call with a local seed leaves the global stream in the state it had
\* before the call.
C3_LocalSeedFrame ==
  (Len(script) > 0 /\ Last.seed # Undefined) => Global = pre

\* the values a seedless call draws from the global stream
GlobalDraws(c) ==
  CASE c.op = "string.sentence" -> Max(1, c.n)
    [] c.op = "util.array" -> Max(0, c.n) * (IF c.f = "word" THEN 2 ELSE 1)
    [] OTHER -> 1

\* C4: a seedless call draws from the global stream itself and leaves it
\* advanced: after the call the stream is as many steps past the state the
\* previous call left as the call drew values, and number.int and string.word
\* return the value of the first step past that state.
C4_SeedlessShares ==
  (Len(script) > 0 /\ Last.seed = Undefined) =>
    /\ Global = AdvanceN(pre, GlobalDraws(Last))
    /\ Global # pre
    /\ (Last.op = "number.int" /\ IsFinite(Last.x) /\ IsFinite(Last.y)
          /\ Last.x.n <= Last.y.n) =>
         LastOut.v = <<Ceil(Last.x.n) + FloorMul(Temper(Advance(pre)),
                                                Floor(Last.y.n) - Ceil(Last.x.n) + 1)>>
    /\ Last.op = "string.word" =>
         LastOut.v = <<FloorMul(Temper(Advance(pre)), NWords)>>

C4_Witness ==
  /\ Len(script) = 2
  /\ script[1].seed = Undefined /\ script[2].seed = Undefined
  /\ script[1].op = "number.int" /\ script[2].op = "number.int"
  /\ Global = AdvanceN(toSeed(curSeed), 2)
  /\ outs[1] # outs[2]

\* what number.int(min, max) with min <= max and string.word() return from a
\* stream in state a
FirstOf(c, a) ==
  IF c.op = "number.int"
  THEN <<Ceil(c.x.n) + FloorMul(Temper(Advance(a)), Floor(c.y.n) - Ceil(c.x.n) + 1)>>
  ELSE <<FloorMul(Temper(Advance(a)), NWords)>>

\* C5: the resolver tests presence: with the local seed 0 or "" the call draws
\* from a new stream whose state is 0, respectively 0x811c9dc5, and the global
\* stream is not used; only the omitted seed selects the global stream.
C5_PresenceNotTruthiness ==
  (/\ Len(script) > 0
   /\ \/ Last.op = "string.word"
      \/ /\ Last.op = "number.int"
         /\ IsFinite(Last.x) /\ IsFinite(Last.y) /\ Last.x.n <= Last.y.n) =>
    /\ Last.seed = Num(0) => LastOut.v = FirstOf(Last, W(0, 0)) /\ Global = pre
    /\ Last.seed = Str(<<>>) => LastOut.v = FirstOf(Last, FnvBasis) /\ Global = pre
    /\ Last.seed = Num(7) => LastOut.v = FirstOf(Last, W(0, 7)) /\ Global = pre
    /\ Last.seed = Undefined => LastOut.v = FirstOf(Last, pre) /\ Global = Advance(pre)

C5_Witness ==
  /\ Len(script) = 2
  /\ script[1].op = "number.int" /\ script[1].seed = Num(0)
  /\ script[2].op = "string.word" /\ script[2].seed = Str(<<>>)
  /\ Global = toSeed(curSeed)

\* C6: seed(v) replaces the global stream by a new one in state hash(v),
\* whatever was drawn before; nothing else replaces it; seed(v) is always
\* possible; at the start the global stream is that of 0x12345678.
C6_SeedReplaces ==
  /\ Global = W(4660, 22136)
  /\ [](\A v \in Seeds : ENABLED seed(v))
  /\ [][/\ (now' = now /\ script' = <<>>) =>
             globalRng' # globalRng /\ heap'[globalRng'] = toSeed(curSeed')
        /\ globalRng' # globalRng => script' = <<>> /\ now' = now]_vars

C6_Witness ==
  /\ script = <<>>
  /\ curSeed = Num(42)
  /\ pre \notin {toSeed(v) : v \in Seeds \cup {DefaultSeed}}
  /\ Global = W(0, 42)

\* the smaller and the larger of two finite bounds, in units of 1 / Den
MinN(c) == IF c.x.n <= c.y.n THEN c.x.n ELSE c.y.n

MaxN(c) == IF c.x.n <= c.y.n THEN c.y.n ELSE c.x.n

IsInt(c) == c.op \in {"rng.int", "number.int"}

FiniteArgs(c) == c.x.k = "fin" /\ c.y.k = "fin"

C8_OrderIrrelevant ==
  (Len(script) > 0 /\ IsInt(Last) /\ FiniteArgs(Last)) =>
    /\ Global = Advance(pre)
    /\ LastOut.v = <<Ceil(MinN(Last))
                     + FloorMul(Temper(Advance(pre)),
                                Floor(MaxN(Last)) - Ceil(MinN(Last)) + 1)>>
    /\ \E r \in {Eval((globalRng :> pre), globalRng, now,
                      [Last EXCEPT !.x = Last.y, !.y = Last.x])} :
         Out(r) = LastOut /\ r.h[globalRng] = Global

C8_Witness ==
  /\ Len(script) > 0
  /\ Last.op = "number.int"
  /\ Last.x = Fin(4) /\ Last.y = Fin(-3)
  /\ LastOut.v = <<2>>
  /\ Global = Advance(pre)

C10_TypeErrorIffNotFinite ==
  (Len(script) > 0
   /\ Last.op \in {"rng.int", "rng.float", "number.int", "number.float"}) =>
    /\ LastOut.err = "TypeError" <=> ~FiniteArgs(Last)
    /\ FiniteArgs(Last) => LastOut.err = "none" /\ LastOut.v # <<>>
    /\ LastOut.err \in {"none", "TypeError"}

C10_Witness ==
  /\ Len(script) > 0
  /\ Last.op = "number.float"
  /\ Last.x = Fin(1) /\ Last.y = PosInf
  /\ LastOut.err = "TypeError"
  /\ LastOut.v = <<>>

\* C11: pick fails with RangeError exactly when the array has no elements;
\* otherwise it takes one step and returns the element at index
\* floor(step * length), which is within 0..length-1, also for the smallest and
\* the largest value a step can return.
C11_PickEmptyOrIndex ==
  (Len(script) > 0 /\ Last.op = "rng.pick") =>
    /\ LastOut.err = "RangeError" <=> Last.n = 0
    /\ LastOut.err \in {"none", "RangeError"}
    /\ Last.n > 0 =>
         /\ LastOut.v = <<FloorMul(Temper(Advance(pre)), Last.n)>>
         /\ LastOut.v[1] \in 0..(Last.n - 1)
         /\ Global = Advance(pre)
         /\ FloorMul(W(0, 0), Last.n) = 0
         /\ FloorMul(W(B16 - 1, B16 - 1), Last.n) = Last.n - 1

C11_Witness ==
  /\ Len(script) = 2
  /\ script[1].op = "rng.pick" /\ script[1].n = 0 /\ outs[1].err = "RangeError"
  /\ script[2].op = "rng.pick" /\ script[2].n = MaxPick /\ outs[2].v = <<MaxPick - 1>>

\* the calls of sc that returned a value, in order
RECURSIVE Succeeded(_, _, _)
Succeeded(sc, os, i) ==
  IF i > Len(sc) THEN <<>>
  ELSE (IF os[i].err = "none" THEN <<sc[i]>> ELSE <<>>) \o Succeeded(sc, os, i + 1)

IsOk(o) == o.err = "none"

\* C12: a call of int, float or pick on a stream, or a seedless number.int,
\* number.float, string.char, string.string or person.password, that fails
\* validation leaves the stream it would have drawn from in the state it had
\* before the call: the calls that succeed return what they return when the
\* failing calls are never made.
C12_FailedCallNoAdvance ==
  /\ (Len(script) > 0 /\ LastOut.err # "none") => Global = pre /\ LastOut.v = <<>>
  /\ SelectSeq(outs, IsOk) = Replay(curSeed, Succeeded(script, outs, 1), now)

C12_Witness ==
  /\ Len(script) = 2
  /\ script[1].op = "person.password" /\ outs[1].err = "RangeError"
  /\ script[2].op = "string.word" /\ outs[2].err = "none"
  /\ Global = Advance(toSeed(curSeed))

\* In SpecSeed the global stream is object 2 once seed(curSeed) was called.
Seeded == globalRng = 2

\* r is congruent to the integer v modulo 2^32, digit by digit with the carry
CongruentTo(r, v) ==
  IF v.neg
  THEN /\ (Lo(r) + v.w[1]) % B16 = 0
       /\ (Hi(r) + v.w[2] + (Lo(r) + v.w[1]) \div B16) % B16 = 0
  ELSE Lo(r) = v.w[1] /\ Hi(r) = v.w[2]

\* C13: the seed hash of an integer n is n mod 2^32, an unsigned 32-bit value,
\* for negative n and n >= 2^32 as well; after seed(n) the global stream has
\* that state, and integer seeds congruent modulo 2^32 give the same stream.
C13_IntegerSeedMod ==
  curSeed \in IntSeeds =>
    /\ Hi(toSeed(curSeed)) \in 0..(B16 - 1) /\ Lo(toSeed(curSeed)) \in 0..(B16 - 1)
    /\ CongruentTo(toSeed(curSeed), curSeed)
    /\ (Seeded /\ script = <<>>) => Global = toSeed(curSeed)
    /\ Seeded =>
         \A v \in IntSeeds :
           CongruentTo(toSeed(curSeed), v) => outs = Replay(v, script, now)

C13_Witness ==
  /\ Seeded
  /\ curSeed = [t |-> "num", neg |-> TRUE, w |-> <<1, 0, 1>>]
  /\ Len(script) = 2
  /\ outs = Replay([t |-> "num", neg |-> FALSE, w |-> <<B16 - 1, B16 - 1, 0>>], script, now)
  /\ Global = AdvanceN(W(B16 - 1, B16 - 1), 2)

\* 16777619 = 0x01000193, the FNV prime
FnvPrime == W(256, 403)

\* the reference fold: h := ((h XOR c) * 16777619) mod 2^32 for each character
RECURSIVE RefFnv(_, _, _)
RefFnv(h, cs, i) ==
  IF i > Len(cs) THEN h
  ELSE Pick({RefFnv(x, cs, i + 1) : x \in {Imul(Xor32(h, W(0, cs[i])), FnvPrime)}})

\* C14: the seed hash of a text is the 32-bit FNV-1a fold from 0x811c9dc5 with
\* the prime 16777619: the shift-and-add form of the code gives this value for
\* every text, the value is within 0..2^32-1, the empty text hashes to
\* 0x811c9dc5, and after seed(text) the global stream has that state.
C14_TextSeedFnv ==
  curSeed \in TextSeeds =>
    /\ toSeed(curSeed) = RefFnv(W(33052, 40389), curSeed.w, 1)
    /\ Hi(toSeed(curSeed)) \in 0..(B16 - 1) /\ Lo(toSeed(curSeed)) \in 0..(B16 - 1)
    /\ curSeed.w = <<>> => toSeed(curSeed) = W(33052, 40389)
    /\ (Seeded /\ script = <<>>) => Global = RefFnv(W(33052, 40389), curSeed.w, 1)

C14_Witness ==
  /\ Seeded
  /\ script = <<>>
  /\ curSeed = Str(<<97, B16 - 1, 255>>)
  /\ Global = RefFnv(FnvBasis, <<97, B16 - 1, 255>>, 1)
  /\ Global # FnvBasis

\* (s + n * 0x6d2b79f5) mod 2^32 for a small n, digit by digit with the carry
PlusWeyl(s, n) ==
  W((Hi(s) + 27947 * n + (Lo(s) + 31221 * n) \div B16) % B16, (Lo(s) + 31221 * n) % B16)

\* C15: a step replaces the state a by (a + 0x6d2b79f5) mod 2^32 and returns
\* k / 2^32 with k an unsigned 32-bit integer computed from the new state only:
\* the value is in [0, 1), the state stays within 0..2^32-1, and n steps after
\* seed(s) the state is (hash(s) + n * 0x6d2b79f5) mod 2^32.
C15_StepLaw ==
  Seeded =>
    /\ Global = PlusWeyl(toSeed(curSeed), Len(script))
    /\ Hi(Global) \in 0..(B16 - 1) /\ Lo(Global) \in 0..(B16 - 1)
    /\ Len(script) > 0 => Global = PlusWeyl(pre, 1)
    /\ (Len(script) > 0 /\ Last.op = "rng.next") =>
         /\ LastOut.v = <<Hi(Temper(PlusWeyl(pre, 1))), Lo(Temper(PlusWeyl(pre, 1)))>>
         /\ LastOut.v[1] \in 0..(B16 - 1) /\ LastOut.v[2] \in 0..(B16 - 1)

C15_Witness ==
  /\ Seeded
  /\ curSeed = [t |-> "num", neg |-> FALSE, w |-> <<B16 - 1, B16 - 1, 1>>]
  /\ Len(script) = 2
  /\ script[1].op = "rng.next" /\ script[2].op = "rng.next"
  /\ Global = W(55894, 62441)
  /\ outs[1] # outs[2]

\* a heap for a nested call that brings its own seed
Scratch == (1 :> W(0, 0))

\* the value of the i-th draw of a parent stream that started in state p, and
\* that draw multiplied by 2^32, as a seed
Draw(p, i) == Temper(AdvanceN(p, i))

Kid(p, i) == NumW(Draw(p, i))

\* the number of draws a composite makes from its own stream
ParentDraws(c) ==
  CASE c.op \in {"string.string", "string.sentence", "person.fullName"} -> 2
    [] c.op = "string.paragraph" -> 2
    [] c.op = "person.username" -> 3
    [] c.op \in {"person.email", "internet.domain"} -> 1
    [] c.op = "internet.url" -> 4
    [] OTHER -> 6

\* what the composite c returns when its stream starts in state p and every
\* nested call gets one draw of that stream as its seed
Composed(c, p) ==
  CASE c.op = "string.string" ->
         StringChar(Scratch, 1, c.f, Kid(p, 1)).v \o StringChar(Scratch, 1, c.f, Kid(p, 2)).v
    [] c.op = "string.sentence" ->
         StringWord(Scratch, 1, Kid(p, 1)).v \o StringWord(Scratch, 1, Kid(p, 2)).v
    [] c.op = "string.paragraph" ->
         StringSentence(Scratch, 1, 6 + FloorMul(Draw(p, 1), 6), Kid(p, 2)).v \o <<-1>>
    [] c.op = "person.fullName" ->
         FirstName(Scratch, 1, c.f, Kid(p, 1)).v \o LastName(Scratch, 1, Kid(p, 2)).v
    [] c.op = "person.username" ->
         <<FirstInitial(FirstName(Scratch, 1, "", Kid(p, 1)).v[1])>>
         \o LastName(Scratch, 1, Kid(p, 2)).v \o <<FloorMul(Draw(p, 3), 1000)>>
    [] c.op = "person.email" -> Username(Scratch, 1, Kid(p, 1)).v
    [] c.op = "internet.domain" -> IdSlug(Scratch, 1, 2, Kid(p, 1)).v
    [] c.op = "internet.url" ->
         <<FloorMul(Draw(p, 1), 2)>> \o Domain(Scratch, 1, Kid(p, 2)).v \o <<-1>>
         \o IdSlug(Scratch, 1, 2 + FloorMul(Draw(p, 3), 2), Kid(p, 4)).v
    [] OTHER ->
         <<1 + FloorMul(Draw(p, 1), 9999), FloorMul(Draw(p, 2), 10), FloorMul(Draw(p, 3), 6)>>
         \o Index(Scratch, 1, NCities, Kid(p, 4)).v \o Zip(Scratch, 1, Kid(p, 6)).v
         \o Index(Scratch, 1, NCountries, Kid(p, 5)).v

\* the state in which the stream of the last call started
ParentStart == IF Last.seed = Undefined THEN pre ELSE toSeed(Last.seed)

C17_SiblingIndependence ==
  (script # <<>> /\ Last \in ComposeCalls /\ Last.seed # Undefined) =>
    /\ LastOut = Out(Eval(Scratch, 1, Now0, Last))
    /\ \A i \in 1..Len(script) : script[i] = Last => outs[i] = LastOut
    /\ Last.op = "person.fullName" =>
         /\ \A gender \in {"", "male", "female"} :
              Eval(heap, globalRng, now, [Last EXCEPT !.f = gender]).v[2] = LastOut.v[2]
         /\ LastOut.v[2] = LastName(Scratch, 1, Kid(toSeed(Last.seed), 2)).v[1]
    /\ Last.op = "location.address" =>
         /\ LastOut.v[4] = Index(Scratch, 1, NCities, Kid(toSeed(Last.seed), 4)).v[1]
         /\ SubSeq(LastOut.v, 5, 9) = Zip(Scratch, 1, Kid(toSeed(Last.seed), 6)).v
         /\ LastOut.v[10] = Index(Scratch, 1, NCountries, Kid(toSeed(Last.seed), 5)).v[1]

C17_Witness ==
  /\ Len(script) = 2
  /\ script[1].op = "person.fullName" /\ script[1].f = "" /\ script[1].seed = Num(7)
  /\ script[2].op = "person.fullName" /\ script[2].f = "male" /\ script[2].seed = Num(7)
  /\ outs[1].v = <<5, 4>>
  /\ outs[2].v = <<3, 4>>

\* the frame i has run its last step and is about to return
Done(i) == i = Len(stack) /\ Finished(stack[i])

\* C18, as stated: every public generator, during one invocation, calls
\* rngFrom exactly once itself, and before any value is drawn on its behalf.
C18_ResolvesOnceItself ==
  \A i \in 1..Len(stack) :
    /\ ~stack[i].early
    /\ Done(i) => stack[i].resolves = 1

\* the functions that hand their seed option to one other public function
Delegators == {"color.hex", "color.hexa", "date.timestamp", "person.phone"}

\* the functions that have no seed option and draw nothing
Seedless == {"images.placeholder", "images.initials"}

\* C18, amended: a public generator that draws values calls rngFrom exactly
\* once itself, before the first draw, with its own seed option as the local
\* seed and the global stream as the fallback; color.hex, color.hexa,
\* date.timestamp and person.phone never call it themselves but pass their seed
\* to one generator that calls it once; images.placeholder and images.initials
\* neither call it nor draw.  A call with a seed leaves the global stream as
\* it was.
C18_ResolvesOnceAmended ==
  /\ \A i \in 1..Len(stack) :
       /\ stack[i].resolves <= 1
       /\ stack[i].early => stack[i].op \in Delegators
       /\ stack[i].resolves = 1 =>
            /\ stack[i].seed = Undefined <=> stack[i].rng = globalRng
            /\ stack[i].draws = 0 /\ stack[i].seed # Undefined =>
                 heap[stack[i].rng] = toSeed(stack[i].seed)
       /\ Done(i) =>
            CASE stack[i].op \in Seedless ->
                   stack[i].resolves = 0 /\ stack[i].fwd = 0 /\ stack[i].draws = 0
              [] stack[i].op \in Delegators ->
                   stack[i].resolves = 0 /\ stack[i].fwd = 1 /\ stack[i].draws > 0
              [] OTHER ->
                   stack[i].resolves = 1 /\ stack[i].fwd = 0 /\ stack[i].draws > 0
  /\ (stack # <<>> /\ stack[1].seed # Undefined) => Global = pre

C18_Witness ==
  /\ Len(stack) = 1
  /\ Top.op = "color.hex" /\ Top.seed = Num(7)
  /\ Finished(Top)
  /\ Top.resolves = 0 /\ Top.fwd = 1 /\ Top.draws = 3 /\ Top.early

\* what task t receives when its calls are the first of the process
AloneFirst(t, m) == Replay(curSeed, TaskList(t, m), Now0)

AllDone(m) == InMode(m) /\ \A t \in Tasks : Len(recv[t]) = Len(TaskList(t, m))

\* C19: on the global stream the values of a task depend on the interleaving:
\* task A receives other values when the calls of B precede its own than when
\* its own come first; with a distinct local seed for each task every task
\* receives, under every interleaving, the values it receives alone.
C19_InterleavingLaw ==
  /\ (AllDone("global") /\ script = TaskList("B", "global") \o TaskList("A", "global"))
       => recv["A"] # AloneFirst("A", "global")
  /\ (script # <<>> /\ InMode("local")) =>
       \A t \in Tasks :
         recv[t] = SubSeq(AloneFirst(t, "local"), 1, Len(recv[t]))

\* C20: for a fixed local seed k, date.timestamp({seed: k}) returns the same
\* value on every call, and date.date({pastYears: n, seed: k}) and
\* date.date({futureYears: n, seed: k}) return at every wall-clock time the
\* value they return at the time the process started.
C20_SameSeedSameDate ==
  /\ \A i, j \in 1..Len(script) :
       (/\ script[i].op = "date.timestamp"
        /\ script[i].seed # Undefined
        /\ script[j] = script[i]) => outs[i] = outs[j]
  /\ \A n \in 1..2 :
       /\ DateDate(heap, globalRng, now, n, -1, "date", Num(7)).v
            = DateDate(Scratch, 1, Now0, n, -1, "date", Num(7)).v
       /\ DateDate(heap, globalRng, now, -1, n, "date", Num(7)).v
            = DateDate(Scratch, 1, Now0, -1, n, "date", Num(7)).v

\* C21: util.array(length, factory, {seed: k}) returns max(0, length) elements,
\* the same for every state of the global stream, and leaves the global stream
\* as it was, also when the factory calls a seedless generator.
C21_ArrayLocalSeed ==
  (script # <<>> /\ Last.op = "util.array" /\ Last.seed # Undefined) =>
    /\ Len(LastOut.v) = Max(0, Last.n)
    /\ LastOut = Out(Eval(Scratch, 1, Now0, Last))
    /\ Global = pre

\* C22: for a fixed seed k and a schema whose field functions call seedless
\* generators, util.object, util.objectMany and util.auto called with
\* {seed: k} return the same values for every state of the global stream and
\* leave the global stream as it was.
C22_SchemaLocalSeed ==
  (script # <<>> /\ Last \in UtilCalls /\ Last.seed # Undefined) =>
    /\ LastOut = Out(Eval(Scratch, 1, Now0, Last))
    /\ Global = pre

\* 10 ** max(0, precision) of the last call
Factor == Pow10(Max(0, Last.n))

TheSeq == seq[1]

Opts == seq[1].opts

\* the number of values of start, start + step, ... that are <= end
Period == (Opts.end - Opts.start) \div Opts.step + 1

\* C24: with loop = true, step > 0 and start <= end, successive next() calls
\* emit map applied to start, start + step, ... while the value is <= end, then
\* start again, with that period for ever; the index passed to map is the
\* number of earlier next() calls and is not reset on wrap.
C24_LoopPeriod ==
  (seq # <<>> /\ Opts.ended /\ Opts.loop /\ Opts.step > 0 /\ Opts.start <= Opts.end) =>
    /\ Len(TheSeq.log) = Len(outs) /\ TheSeq.index = Len(outs)
    /\ \A i \in 1..Len(outs) :
         /\ TheSeq.log[i] = Opts.start + ((i - 1) % Period) * Opts.step
         /\ TheSeq.log[i] <= Opts.end
         /\ outs[i].v[1] = MapOf(Opts.map, TheSeq.log[i], i - 1)

C24_Witness ==
  /\ seq # <<>>
  /\ Opts = [start |-> 1, ended |-> TRUE, end |-> 4, step |-> 2, loop |-> TRUE,
             map |-> "index"]
  /\ TheSeq.log = <<1, 3, 1, 3>>
  /\ outs[4].v[1] = 3

\* C29, as stated: with end set, loop = false and step > 0 no value emitted
\* (before map) is greater than end, for every start; once start + i * step
\* exceeds end every later next() emits end; the iterator never reports done.
C29_ClampedToEnd ==
  /\ (seq # <<>> /\ Opts.ended /\ ~Opts.loop /\ Opts.step > 0) =>
       \A i \in 1..Len(TheSeq.log) :
         /\ TheSeq.log[i] <= Opts.end
         /\ Opts.start + (i - 1) * Opts.step > Opts.end => TheSeq.log[i] = Opts.end
  /\ \A i \in 1..Len(outs) : Len(outs[i].v) = 2 => outs[i].v[2] = 0

\* C29, amended: with end set, loop = false and step > 0 the first value
\* emitted is start, also when start > end; every later value is
\* start + i * step while that is <= end and end from then on, so that only the
\* first value can be greater than end; the iterator never reports done,
\* whether or not end is set.
C29_ClampedAmended ==
  /\ (seq # <<>> /\ Opts.ended /\ ~Opts.loop /\ Opts.step > 0) =>
       \A i \in 1..Len(TheSeq.log) :
         TheSeq.log[i] =
           IF i = 1 THEN Opts.start
           ELSE IF Opts.start + (i - 1) * Opts.step <= Opts.end
                THEN Opts.start + (i - 1) * Opts.step
           ELSE Opts.end
  /\ \A i \in 1..Len(outs) : Len(outs[i].v) = 2 => outs[i].v[2] = 0
  /\ (seq # <<>> /\ Len(outs) < MaxNext) => ENABLED SeqNext(TRUE)

C29_Witness ==
  /\ seq # <<>>
  /\ Opts = [start |-> 6, ended |-> TRUE, end |-> 4, step |-> 1, loop |-> FALSE,
             map |-> "none"]
  /\ TheSeq.log = <<6, 4, 4>>
  /\ outs[3].v = <<4, 0>>

\* the template of the last call and its symbols option
LastTemplate == Template(Last.f)

LastSymbols == IF Last.op = "person.phone" THEN "SYMBOLS" ELSE SymbolsOf(Last.n)

\* the character codes of a charset
Codes(charset) ==
  CASE charset = "UPPER" -> 65..90
    [] charset = "LOWER" -> 97..122
    [] charset = "DIGIT" -> 48..57
    [] charset = "ALNUM" -> (65..90) \cup (97..122) \cup (48..57)
    [] charset = "SYMBOLS" -> {33, 64, 35, 36, 37, 94, 38, 42, 95, 45}
    [] charset = "ab" -> {97, 98}
    [] OTHER -> {}

\* the characters the template character ch may be replaced by
Expansions(ch, symbols) ==
  IF ch \in {65, 97, 35, 64, 33} THEN Codes(ClassOf(ch, symbols))
  ELSE IF ch = 46 THEN 33..126
  ELSE {ch}

\* the number of escaping backslashes of t from position i on
RECURSIVE Escapes(_, _, _)
Escapes(t, i, escaping) ==
  IF i > Len(t) THEN 0
  ELSE IF escaping THEN Escapes(t, i + 1, FALSE)
  ELSE IF t[i] = 92 THEN 1 + Escapes(t, i + 1, TRUE)
  ELSE Escapes(t, i + 1, FALSE)

\* t ends in a backslash that escapes nothing
RECURSIVE Dangling(_, _, _)
Dangling(t, i, escaping) ==
  IF i > Len(t) THEN escaping
  ELSE Dangling(t, i + 1, ~escaping /\ t[i] = 92)

\* t has an unescaped token ch
RECURSIVE HasToken(_, _, _, _)
HasToken(t, ch, i, escaping) ==
  IF i > Len(t) THEN FALSE
  ELSE IF escaping THEN HasToken(t, ch, i + 1, FALSE)
  ELSE t[i] = ch \/ HasToken(t, ch, i + 1, t[i] = 92)

\* out, from position j on, is an expansion of t from position i on
RECURSIVE Conforms(_, _, _, _, _, _)
Conforms(t, i, escaping, out, j, symbols) ==
  IF i > Len(t) THEN j = Len(out) + 1
  ELSE IF escaping
       THEN j <= Len(out) /\ out[j] = t[i] /\ Conforms(t, i + 1, FALSE, out, j + 1, symbols)
  ELSE IF t[i] = 92 THEN Conforms(t, i + 1, TRUE, out, j, symbols)
  ELSE /\ j <= Len(out)
       /\ out[j] \in Expansions(t[i], symbols)
       /\ Conforms(t, i + 1, FALSE, out, j + 1, symbols)

\* C25: string.pattern replaces each unescaped token by one character of its
\* class, drops an escaping backslash and copies the character after it, and
\* copies every other character; the output is as long as the template less
\* its escaping backslashes, and person.phone('+1-###-###-####') has the form
\* +1-ddd-ddd-dddd.  (The template does not end in a dangling backslash and the
\* symbols option is not empty where a '!' token is used.)
C25_PatternExpansion ==
  (/\ script # <<>>
   /\ Last.op \in {"string.pattern", "person.phone"}
   /\ ~Dangling(LastTemplate, 1, FALSE)
   /\ ~(LastSymbols = "" /\ HasToken(LastTemplate, 33, 1, FALSE))) =>
    /\ LastOut.err = "none"
    /\ Conforms(LastTemplate, 1, FALSE, LastOut.v, 1, LastSymbols)
    /\ Len(LastOut.v) = Len(LastTemplate) - Escapes(LastTemplate, 1, FALSE)
    /\ Last.op = "person.phone" =>
         /\ Len(LastOut.v) = 15
         /\ SubSeq(LastOut.v, 1, 3) = <<43, 49, 45>>
         /\ LastOut.v[7] = 45 /\ LastOut.v[11] = 45
         /\ \A i \in {4, 5, 6, 8, 9, 10, 12, 13, 14, 15} : LastOut.v[i] \in 48..57

C25_Witness ==
  /\ script # <<>>
  /\ Last = Call("string.pattern", NaN, NaN, 0, "Aa#@!.\\-", Undefined)
  /\ pre = toSeed(DefaultSeed)
  /\ LastOut.v = <<81, 115, 48, 51, 42, 106, 45>>

\* the sets the last password call enables
LastSets == PasswordSets(Last.f)

\* the character codes of a set of person.password
SetCodes(set) == {SetChar(set, i) : i \in 0..(SetLen(set) - 1)}

C27_BoolClamp ==
  (script # <<>> /\ Last.op = "boolean.bool") =>
    /\ LastOut.err = "none"
    /\ Gt(Fin(1), Last.x) => LastOut.v = <<0>>
    /\ (Last.x.k # "nan" /\ ~Gt(Fin(Den), Last.x)) => LastOut.v = <<1>>
    /\ Last.seed = Undefined =>
         /\ Global = Advance(pre)
         /\ (Last.x.k = "fin" /\ Last.x.n \in 0..Den) =>
              LastOut.v = <<IF FloorMul(Temper(Global), Den) < Last.x.n THEN 1 ELSE 0>>
    /\ Last.seed # Undefined =>
         /\ Global = pre
         /\ (Last.x.k = "fin" /\ Last.x.n \in 0..Den) =>
              LastOut.v = <<IF FloorMul(Temper(Advance(toSeed(Last.seed))), Den) < Last.x.n
                            THEN 1 ELSE 0>>

C27_Witness ==
  /\ script # <<>>
  /\ Last = Call("boolean.bool", Fin(2 * Den), NaN, 0, "", Undefined)
  /\ pre = toSeed(DefaultSeed)
  /\ LastOut.v = <<1>>
  /\ Global = Advance(toSeed(DefaultSeed))

\* C28: a seedless string.pattern whose template ends in an unescaped
\* backslash fails, returns nothing and leaves the global stream as it was
\* before the call, also when tokens precede the backslash.
C28_DanglingNoEffect ==
  (/\ script # <<>>
   /\ Last.op = "string.pattern"
   /\ Last.seed = Undefined
   /\ Dangling(LastTemplate, 1, FALSE)
   /\ ~(LastSymbols = "" /\ HasToken(LastTemplate, 33, 1, FALSE))) =>
    /\ LastOut.err = "Error"
    /\ LastOut.v = <<>>
    /\ Global = pre

\* the program after seed(k): the heap and the global stream seed(k) leaves
Reseeded(k) ==
  Pick({[h |-> Collect(r.h, r.rng), g |-> r.rng] : r \in {createRNG(heap, k)}})

\* the last call made without its seed as the first call after seed(k), k the
\* seed of the last call
AfterReseed ==
  Pick({Eval(s.h, s.g, now, [Last EXCEPT !.seed = Undefined]) :
        s \in {Reseeded(Last.seed)}})

\* the number of steps from the state a to the state b of one stream, -1 when b
\* is not within n steps of a
MaxAdvance == 40

RECURSIVE StepsBetween(_, _, _)
StepsBetween(a, b, n) ==
  IF a = b THEN 0
  ELSE IF n = 0 THEN -1
  ELSE Pick({IF r = -1 THEN -1 ELSE r + 1 : r \in {StepsBetween(Advance(a), b, n - 1)}})

=============================================================================
